---------------------------- MODULE Spec2Model ----------------------------
(***************************************************************************)
(* The "also known as" (AKA) normalisation engine of the plant data set:   *)
(* the commonExamples parser, the resolvers, the AKA block codec and the   *)
(* two appliers (scripts/add_common_alias_to_description.py and            *)
(* scripts/ensure_complementary_aka.py), with the decoder of               *)
(* scripts/audit_also_known_as.py.                                         *)
(*                                                                         *)
(* A Python str is a sequence of one-character strings.  Characters        *)
(* outside ASCII are written by code point ("U+3002" is the ideographic    *)
(* full stop), and the locale phrases, whose letters never take part in a  *)
(* match on their own, are one element each: "Also known as:" followed by  *)
(* the element " " is the English phrase "Also known as: ".                *)
(***************************************************************************)
EXTENDS Integers, Sequences, FiniteSets, TLC

VARIABLES
    locale,             \* the locale handed to process_file / the codec
    data,               \* the loaded language file: a sequence of entries
    species_to_plant,   \* the formal-name -> plant id map given to add's process_file
    op,                 \* the operation that produced this state
    prev_op,            \* the operation before that
    updated,            \* the count process_file returned
    written,            \* whether the last process_file wrote the file
    raised,             \* whether the last process_file ended in an exception
    before,             \* data as it was when the last process_file began
    resolved,           \* the value process_file resolved for each entry (None if skipped)
    runs,               \* how many times a script has been run on the file
    args,               \* the arguments of the pure function under check
    result              \* what the pure function returned

vars == <<locale, data, species_to_plant, op, prev_op, updated, written, raised, before,
          resolved, runs, args, result>>

None == <<"<None>">>   \* Python's None; no str contains this element

\* A JSON number where a string is expected
Num == <<"<Num>">>

\* isinstance(v, str)
IsStr(v) == v # None /\ v # Num

----------------------------------------------------------------------------
(* Characters and the str methods the scripts use.                          *)

IdeoStop == "U+3002"
Times == "U+00D7"

Space == {" ", "\t", "\n"}

UpperAZ == <<"A","B","C","D","E","F","G","H","I","J","K","L","M",
             "N","O","P","Q","R","S","T","U","V","W","X","Y","Z">>
LowerAZ == <<"a","b","c","d","e","f","g","h","i","j","k","l","m",
             "n","o","p","q","r","s","t","u","v","w","x","y","z">>

UpperSet == {UpperAZ[i] : i \in 1..26}
LowerSet == {LowerAZ[i] : i \in 1..26}
ToLower == [c \in UpperSet |-> LowerAZ[CHOOSE i \in 1..26 : UpperAZ[i] = c]]

IsAZ(c) == c \in UpperSet
Isaz(c) == c \in LowerSet
IsWord(c) == IsAZ(c) \/ Isaz(c) \/ c \in {"0","1","2","3","4","5","6","7","8","9","_"}

\* str.lower(), one character
LowerChar(c) == IF IsAZ(c) THEN ToLower[c] ELSE c
Lower(s) == [i \in 1..Len(s) |-> LowerChar(s[i])]

RECURSIVE LStrip(_)
LStrip(s) == IF s # <<>> /\ Head(s) \in Space THEN LStrip(Tail(s)) ELSE s

RECURSIVE RStrip(_)
RStrip(s) ==
    IF s # <<>> /\ s[Len(s)] \in Space THEN RStrip(SubSeq(s, 1, Len(s) - 1)) ELSE s

Strip(s) == LStrip(RStrip(s))

Occurs(s, p, i) == i >= 1 /\ i + Len(p) - 1 <= Len(s) /\ SubSeq(s, i, i + Len(p) - 1) = p

\* str.find / str.index from position start, 1-based; 0 when p does not occur.
Find(s, p, start) ==
    LET I == {i \in start..(Len(s) - Len(p) + 1) : Occurs(s, p, i)}
    IN  IF I = {} THEN 0 ELSE CHOOSE i \in I : \A j \in I : i <= j

Contains(s, p) == Find(s, p, 1) # 0

StartsWith(s, p) == Occurs(s, p, 1)

EndsWithAny(s, cs) == s # <<>> /\ s[Len(s)] \in cs

\* str.split(c) on a one-character separator.
RECURSIVE Split(_, _)
Split(s, c) ==
    LET i == Find(s, <<c>>, 1)
    IN  IF i = 0 THEN <<s>>
        ELSE <<SubSeq(s, 1, i - 1)>> \o Split(SubSeq(s, i + 1, Len(s)), c)

\* sep.join(parts)
RECURSIVE Join(_, _)
Join(parts, sep) ==
    IF parts = <<>> THEN <<>>
    ELSE IF Len(parts) = 1 THEN parts[1]
    ELSE parts[1] \o sep \o Join(Tail(parts), sep)

----------------------------------------------------------------------------
(* The AKA block codec.                                                     *)

ALIAS_PHRASES ==
    [l \in {"en", "es", "zh-Hans"} |->
        CASE l = "en" -> <<"Also known as:", " ">>
          [] l = "es" -> <<"Tambien conocida como:", " ">>
          [] l = "zh-Hans" -> <<"U+4E5F U+79F0 U+FF1A">>]

ALIAS_SUFFIX ==
    [l \in {"en", "es", "zh-Hans"} |-> IF l = "zh-Hans" THEN IdeoStop ELSE "."]

\* ALIAS_PHRASES.get(locale, ALIAS_PHRASES["en"])
PhraseOf(l) == IF l \in DOMAIN ALIAS_PHRASES THEN ALIAS_PHRASES[l] ELSE ALIAS_PHRASES["en"]
SuffixOf(l) == IF l \in DOMAIN ALIAS_SUFFIX THEN ALIAS_SUFFIX[l] ELSE ALIAS_SUFFIX["en"]

build_alias_string(value_, l) == PhraseOf(l) \o value_ \o <<SuffixOf(l)>>

build_aka_block(value_, l) == PhraseOf(l) \o value_ \o <<SuffixOf(l)>>

\* pattern.sub("", description) for phrase + [^suffix]* + suffix: every
\* non-overlapping match, leftmost first, is removed.
RECURSIVE SubBlock(_, _, _)
SubBlock(s, phrase, suffix) ==
    LET i == Find(s, phrase, 1)
        e == IF i = 0 THEN 0 ELSE Find(s, <<suffix>>, i + Len(phrase))
    IN  IF i = 0 \/ e = 0 THEN s
        ELSE SubSeq(s, 1, i - 1) \o SubBlock(SubSeq(s, e + 1, Len(s)), phrase, suffix)

\* re.sub(r"\.\s*\.", ".", desc)
RECURSIVE SubDoubleDot(_)
SubDoubleDot(s) ==
    IF s = <<>> THEN <<>>
    ELSE IF Head(s) = "."
         THEN LET r == LStrip(Tail(s))
              IN  IF r # <<>> /\ Head(r) = "."
                  THEN <<".">> \o SubDoubleDot(Tail(r))
                  ELSE <<".">> \o SubDoubleDot(Tail(s))
         ELSE <<Head(s)>> \o SubDoubleDot(Tail(s))

\* re.sub(r"^\s*\.\s*", "", desc)
SubLeadingDot(s) ==
    LET r == LStrip(s)
    IN  IF r # <<>> /\ Head(r) = "." THEN LStrip(Tail(r)) ELSE s

\* re.sub(r"\s+", " ", desc)
RECURSIVE SubSpaces(_)
SubSpaces(s) ==
    IF s = <<>> THEN <<>>
    ELSE IF Head(s) \in Space THEN <<" ">> \o SubSpaces(LStrip(Tail(s)))
         ELSE <<Head(s)>> \o SubSpaces(Tail(s))

CleanUp(s) == Strip(SubSpaces(SubLeadingDot(SubDoubleDot(s))))

strip_existing_alias(description, l) ==
    CleanUp(SubBlock(description, PhraseOf(l), SuffixOf(l)))

already_has_alias_phrase(description, l) == Contains(description, PhraseOf(l))

strip_aka_block(description, l) ==
    IF ~Contains(description, PhraseOf(l)) THEN description
    ELSE CleanUp(SubBlock(description, PhraseOf(l), SuffixOf(l)))

audit_strip_aka_block(description, l) ==
    IF ~Contains(description, PhraseOf(l)) THEN description
    ELSE CleanUp(SubBlock(description, PhraseOf(l), SuffixOf(l)))

extract_aka(description, l) ==
    IF ~Contains(description, PhraseOf(l)) THEN None
    ELSE LET start == Find(description, PhraseOf(l), 1) + Len(PhraseOf(l))
             found == Find(description, <<SuffixOf(l)>>, start)
             end == IF found = 0 THEN Len(description) + 1 ELSE found
         IN  Strip(SubSeq(description, start, end - 1))

----------------------------------------------------------------------------
(* The commonExamples parser (three copies in the scripts).                 *)

\* EXCLUDE_GENERIC of add_common_alias_to_description.py
EXCLUDE_GENERIC ==
    { <<"v","a","r","i","e","t","y">>,
      <<"s","p","e","c","k","l","e","d"," ","v","a","r","i","e","t","y">>,
      <<"U+6742","U+4EA4">>,
      <<"v","a","r","i","o","u","s">>,
      <<"v","a","r",".">>,
      <<"s","u","b","s","p",".">>,
      <<"s","y","n",".">>,
      <<"h","y","b","r","i","d">> }

\* EXCLUDE_GENERIC of ensure_complementary_aka.py
ensure_EXCLUDE_GENERIC ==
    EXCLUDE_GENERIC \cup { <<"h","U+00ED","b","r","i","d","o">> }

Syn == <<"s","y","n",".">>

\* pattern.finditer(common_examples) for r"([^(]+)\s*\(([^)]+)\)": the
\* non-overlapping matches, leftmost first, each as <<group(1), group(2)>>.
\* A match starts at a character other than "(", runs to the next "(" at p,
\* and needs a ")" at q with at least one character between them.  With no
\* "(" or no ")" ahead nothing further matches; with "()" the search resumes
\* at the ")".
RECURSIVE FindIter(_, _)
FindIter(s, st) ==
    IF st > Len(s) THEN <<>>
    ELSE IF s[st] = "(" THEN FindIter(s, st + 1)
    ELSE LET p == Find(s, <<"(">>, st)
             q == IF p = 0 THEN 0 ELSE Find(s, <<")">>, p + 1)
         IN  IF p = 0 \/ q = 0 THEN <<>>
             ELSE IF q = p + 1 THEN FindIter(s, q)
             ELSE << <<SubSeq(s, st, p - 1), SubSeq(s, p + 1, q - 1)>> >>
                  \o FindIter(s, q + 1)

AfterSemicolon_first(paren) ==
    IF Contains(paren, <<";">>)
    THEN Strip(SubSeq(paren, Find(paren, <<";">>, 1) + 1, Len(paren)))
    ELSE paren

\* "syn. X; alias1, alias2": only the part after the last ";" is kept.
AfterSemicolon(paren) ==
    IF Contains(paren, <<";">>)
    THEN LET parts == Split(paren, ";") IN Strip(parts[Len(parts)])
    ELSE paren

MapSeq(F(_), q) == [i \in 1..Len(q) |-> F(q[i])]

add_KeepAlias(a) ==
    a # <<>> /\ Lower(a) \notin EXCLUDE_GENERIC /\ ~StartsWith(Lower(a), Syn)

add_Segment(m) ==
    LET formal == Strip(m[1])
        paren_content == AfterSemicolon(Strip(m[2]))
        aliases == SelectSeq(MapSeq(Strip, Split(paren_content, ",")), add_KeepAlias)
    IN  <<formal, aliases>>

ReturnsEmpty_falsy(common_examples) ==
    common_examples = None \/ common_examples = <<>>

\* if not common_examples or not isinstance(common_examples, str): return []
ReturnsEmpty(common_examples) ==
    \/ common_examples = None \/ common_examples = <<>>
    \/ ~IsStr(common_examples)

\* Whether the parser raises: pattern.finditer on a value that is no str
parse_Raises(common_examples) ==
    ~ReturnsEmpty(common_examples) /\ ~IsStr(common_examples)

KeepSegment_either(seg) == seg[1] # <<>> \/ seg[2] # <<>>

KeepSegment(seg) == seg[1] # <<>> /\ seg[2] # <<>>

add_parse_common_examples(common_examples) ==
    IF ReturnsEmpty(common_examples) THEN <<>>
    ELSE SelectSeq(MapSeq(add_Segment, FindIter(common_examples, 1)), KeepSegment)

\* The copy in ensure_complementary_aka.py tests the token before it is trimmed.
ensure_KeepAlias(a) ==
    /\ Strip(a) # <<>>
    /\ Lower(a) \notin ensure_EXCLUDE_GENERIC
    /\ ~StartsWith(Lower(a), Syn)

ensure_Segment(m) ==
    LET formal == Strip(m[1])
        paren == AfterSemicolon(Strip(m[2]))
        aliases == MapSeq(Strip, SelectSeq(Split(paren, ","), ensure_KeepAlias))
    IN  <<formal, aliases>>

ensure_parse_common_examples(common_examples) ==
    IF ReturnsEmpty(common_examples) THEN <<>>
    ELSE SelectSeq(MapSeq(ensure_Segment, FindIter(common_examples, 1)), KeepSegment)

----------------------------------------------------------------------------
(* The classifier of ensure_complementary_aka.py.                           *)

\* Characters that are \w to Python besides ASCII letters, digits and "_".
WordAtoms == {"U+00ED", "U+6742", "U+4EA4", "U+540C U+4E49 U+540D"}
IsW(c) == IsWord(c) \/ c \in WordAtoms

\* \b at the gap before s[i], 1 <= i <= Len(s) + 1
Boundary(s, i) ==
    LET l == i > 1 /\ IsW(s[i - 1])
        r == i <= Len(s) /\ IsW(s[i])
    IN  l # r

\* re.match(r"^[A-Z][a-z]+\s+[a-z]", val)
Binomial(val) ==
    /\ Len(val) >= 1
    /\ IsAZ(val[1])
    /\ \E j \in 2..Len(val) :
         /\ \A k \in 2..j : Isaz(val[k])
         /\ \E m \in (j + 1)..Len(val) :
              /\ \A k \in (j + 1)..m : val[k] \in Space
              /\ m + 1 <= Len(val)
              /\ Isaz(val[m + 1])

Quote == {"'", "\""}

\* re.search(r"['\"][^'\"]+['\"]", val)
Cultivar(val) ==
    \E i \in 1..Len(val) : \E j \in (i + 2)..Len(val) :
        /\ val[i] \in Quote
        /\ val[j] \in Quote
        /\ \A k \in (i + 1)..(j - 1) : val[k] \notin Quote

\* re.search(r"\b(var\.|subsp\.|U+00D7)\b", val, re.I)
TaxonWords == { <<"v","a","r",".">>, <<"s","u","b","s","p",".">>, <<Times>> }
Taxon(val) ==
    \E w \in TaxonWords : \E i \in 1..Len(val) :
        /\ Occurs(Lower(val), w, i)
        /\ Boundary(val, i)
        /\ Boundary(val, i + Len(w))

looks_like_scientific_name(value_) ==
    LET val == Strip(value_)
    IN  /\ val # <<>>
        /\ (Binomial(val) \/ Cultivar(val) \/ Taxon(val))

----------------------------------------------------------------------------
(* The classifier of audit_also_known_as.py.                                *)

\* SCIENTIFIC_GENERA of audit_also_known_as.py
SCIENTIFIC_GENERA ==
    { <<"a","l","o","e">>,
      <<"a","s","t","r","o","p","h","y","t","u","m">>,
      <<"c","r","a","s","s","u","l","a">>,
      <<"c","u","r","i","o">>,
      <<"e","c","h","e","v","e","r","i","a">>,
      <<"e","p","i","p","h","y","l","l","u","m">>,
      <<"f","i","c","u","s">>,
      <<"g","o","e","p","p","e","r","t","i","a">>,
      <<"g","r","a","p","t","o","p","e","t","a","l","u","m">>,
      <<"h","a","w","o","r","t","h","i","a">>,
      <<"k","a","l","a","n","c","h","o","e">>,
      <<"l","i","t","h","o","p","s">>,
      <<"m","a","m","m","i","l","l","a","r","i","a">>,
      <<"m","a","r","a","n","t","a">>,
      <<"o","p","u","n","t","i","a">>,
      <<"p","h","a","l","a","e","n","o","p","s","i","s">>,
      <<"r","h","i","p","s","a","l","i","s">>,
      <<"s","a","i","n","t","p","a","u","l","i","a">>,
      <<"s","c","h","l","u","m","b","e","r","g","e","r","a">>,
      <<"s","e","d","u","m">>,
      <<"s","t","r","e","p","t","o","c","a","r","p","u","s">> }

\* COMMON_FIRST_WORDS of audit_also_known_as.py
COMMON_FIRST_WORDS ==
    { <<"a","f","r","i","c","a","n">>,
      <<"a","i","r","p","l","a","n","e">>,
      <<"a","l","b","a","h","a","c","a">>,
      <<"a","l","b","a","n","y">>,
      <<"a","l","l","u","s","i","o","n">>,
      <<"a","m","a","z","o","n">>,
      <<"a","m","o","r">>,
      <<"a","n","g","e","l">>,
      <<"a","r","a","b","i","a","n">>,
      <<"a","r","r","o","w">>,
      <<"a","r","u","m">>,
      <<"a","z","u","k","i">>,
      <<"a","z","u","l">>,
      <<"b","a","b","y">>,
      <<"b","a","m","b","o","o">>,
      <<"b","a","n","a","n","a">>,
      <<"b","a","r","r","e","l">>,
      <<"b","a","r","r","o","o","m">>,
      <<"b","a","y">>,
      <<"b","e","a","r","d","e","d">>,
      <<"b","e","e">>,
      <<"b","i","r","d">>,
      <<"b","l","a","c","k">>,
      <<"b","l","a","n","c","o">>,
      <<"b","l","a","n","k","e","t">>,
      <<"b","l","e","e","d","i","n","g">>,
      <<"b","o","n","e">>,
      <<"b","r","a","s","i","l">>,
      <<"b","r","e","a","d","f","r","u","i","t">>,
      <<"b","r","o","a","d">>,
      <<"b","u","n">>,
      <<"b","u","r","r","o">>,
      <<"b","u","t","t","o","n">>,
      <<"c","a","c","t","u","s">>,
      <<"c","a","d","e","n","a">>,
      <<"c","a","m","e","l","i","a">>,
      <<"c","a","p","e">>,
      <<"c","a","s","t">>,
      <<"c","a","t","h","e","d","r","a","l">>,
      <<"c","e","b","o","l","l","a">>,
      <<"c","h","e","e","s","e">>,
      <<"c","h","i","c","k">>,
      <<"c","h","i","n">>,
      <<"c","h","i","n","e","s","e">>,
      <<"c","h","r","i","s","t","m","a","s">>,
      <<"c","i","d","e","r">>,
      <<"c","l","a","w">>,
      <<"c","l","o","u","d">>,
      <<"c","o","b","r","e">>,
      <<"c","o","f","f","e","e">>,
      <<"c","o","l","a">>,
      <<"c","o","l","e","u","s">>,
      <<"c","o","m","m","o","n">>,
      <<"c","o","m","p","a","c","t">>,
      <<"c","o","n","f","e","d","e","r","a","t","e">>,
      <<"c","o","r","a","l">>,
      <<"c","o","r","n">>,
      <<"c","r","a","b">>,
      <<"c","r","a","i","g">>,
      <<"c","r","a","n","e">>,
      <<"c","r","e","s","t">>,
      <<"c","r","o","t","o","n">>,
      <<"c","u","r","l","y">>,
      <<"c","u","s","h","i","o","n">>,
      <<"d","e","l","f","i","n","e","s">>,
      <<"d","e","v","i","l">>,
      <<"d","o","l","p","h","i","n">>,
      <<"d","o","m","i","n","o">>,
      <<"d","o","r","a","d","o">>,
      <<"d","r","a","c","a","e","n","a">>,
      <<"d","r","a","g","o","n">>,
      <<"d","u","c","k">>,
      <<"d","u","l","c","e">>,
      <<"e","a","r">>,
      <<"e","a","s","t","e","r">>,
      <<"e","l","e","f","a","n","t","e">>,
      <<"e","l","e","p","h","a","n","t">>,
      <<"e","l","k","h","o","r","n">>,
      <<"e","m","e","r","a","l","d">>,
      <<"e","n","g","l","a","n","d">>,
      <<"e","n","g","l","i","s","h">>,
      <<"e","n","r","e","d","a","d","e","r","a">>,
      <<"e","s","p","a","d","a">>,
      <<"e","s","p","e","j","o">>,
      <<"e","t","e","r","n","i","t","y">>,
      <<"e","u","r","o","p","e","a">>,
      <<"f","a","l","s","e">>,
      <<"f","a","n","c","y">>,
      <<"f","e","r","n">>,
      <<"f","i","s","h">>,
      <<"f","i","s","h","b","o","n","e">>,
      <<"f","l","a","m","e">>,
      <<"f","l","a","m","e","n","c","o">>,
      <<"f","l","a","m","i","n","g">>,
      <<"f","l","a","m","i","n","g","o">>,
      <<"f","l","o","r">>,
      <<"f","l","o","w","e","r">>,
      <<"f","o","o","t">>,
      <<"f","r","i","j","o","l">>,
      <<"g","a","r","d","e","n">>,
      <<"g","e","n","o","v","e","s","a">>,
      <<"g","h","o","s","t">>,
      <<"g","i","a","n","t">>,
      <<"g","l","o","r","i","o","s","a">>,
      <<"g","l","o","s","s","y">>,
      <<"g","o","l","d","e","n">>,
      <<"g","r","a","y">>,
      <<"g","r","e","a","t">>,
      <<"g","r","e","e","n">>,
      <<"g","r","e","y">>,
      <<"h","a","y">>,
      <<"h","e","a","r","t">>,
      <<"h","e","l","e","c","h","o">>,
      <<"h","e","n">>,
      <<"h","o","a","r","y">>,
      <<"h","o","m","b","r","e">>,
      <<"h","o","p","e">>,
      <<"h","o","u","s","e","l","e","e","k">>,
      <<"i","m","p","a","t","i","e","n","s">>,
      <<"i","n","c","h">>,
      <<"i","n","d","i","a">>,
      <<"i","n","g","l","e","s","a">>,
      <<"i","r","o","n">>,
      <<"j","a","m","a","i","c","a">>,
      <<"j","a","n","e","t">>,
      <<"j","a","p","o","n","e","s","a">>,
      <<"j","a","r","d","U+00ED","n">>,
      <<"j","a","s","m","i","n","e">>,
      <<"j","e","w">>,
      <<"j","u","n","i","p","e","r">>,
      <<"k","a","n","g","a","r","o","o">>,
      <<"k","a","t","y">>,
      <<"l","a","c","e">>,
      <<"l","a","c","y">>,
      <<"l","a","d","y">>,
      <<"l","a","r","g","e">>,
      <<"l","a","v","a","n","d","a">>,
      <<"l","e","a","f">>,
      <<"l","e","n","g","u","a">>,
      <<"l","e","n","t","e","n">>,
      <<"l","e","o","p","a","r","d">>,
      <<"l","i","l","y">>,
      <<"l","i","m","e">>,
      <<"l","i","m","e","l","i","g","h","t">>,
      <<"l","i","p","s","t","i","c","k">>,
      <<"l","i","s","t","a","d","a">>,
      <<"l","i","z","z","i","e">>,
      <<"l","u","c","k","y">>,
      <<"m","a","d","a","g","a","s","c","a","r">>,
      <<"m","a","i","d","e","n","h","a","i","r">>,
      <<"m","a","n">>,
      <<"m","a","n","o","j","o">>,
      <<"m","a","r","g","a","r","i","t","a">>,
      <<"m","a","r","i","a">>,
      <<"m","a","s","c","a","r","a">>,
      <<"m","a","s","k">>,
      <<"m","e","d","a","l","l","i","o","n">>,
      <<"m","e","d","i","c","i","n","a","l">>,
      <<"m","e","x","i","c","a","n">>,
      <<"m","i","n","i">>,
      <<"m","i","n","i","a","t","u","r","e">>,
      <<"m","i","r","r","o","r">>,
      <<"m","i","s","t","l","e","t","o","e">>,
      <<"m","o","n","e","y">>,
      <<"m","o","o","n">>,
      <<"m","o","s","a","i","c">>,
      <<"m","o","s","e","l","i","k","e">>,
      <<"m","o","s","s">>,
      <<"m","o","t","h">>,
      <<"m","o","t","h","e","r">>,
      <<"m","U+00E1","s","c","a","r","a">>,
      <<"n","a","b","o">>,
      <<"n","a","g","o","y","a">>,
      <<"n","a","t","a","l">>,
      <<"n","a","v","i","d","a","d">>,
      <<"n","e","g","r","o">>,
      <<"n","e","r","v","e">>,
      <<"n","e","s","t">>,
      <<"n","e","w">>,
      <<"n","i","g","h","t">>,
      <<"n","o","p","a","l">>,
      <<"o","c","u","p","a","d","a">>,
      <<"o","l","d">>,
      <<"o","r","e","j","a">>,
      <<"o","r","n","a","m","e","n","t","a","l">>,
      <<"o","v","a","l">>,
      <<"o","y","s","t","e","r">>,
      <<"p","a","c","h","y","s","a","n","d","r","a">>,
      <<"p","a","i","n","t","e","d">>,
      <<"p","a","k">>,
      <<"p","a","l","m","e","r","a">>,
      <<"p","a","r","a","d","i","s","e">>,
      <<"p","a","s","c","u","a">>,
      <<"p","a","w">>,
      <<"p","e","a","c","o","c","k">>,
      <<"p","e","a","r","l">>,
      <<"p","e","a","r","l","s">>,
      <<"p","e","n","c","i","l">>,
      <<"p","e","r","a">>,
      <<"p","e","r","l","a","s">>,
      <<"p","i","m","i","e","n","t","o">>,
      <<"p","i","n","c","u","s","h","i","o","n">>,
      <<"p","i","n","k">>,
      <<"p","l","a","n","t","a">>,
      <<"p","l","a","t","e","a","d","a">>,
      <<"p","l","u","m">>,
      <<"p","l","u","m","a">>,
      <<"p","l","u","m","o","s","a">>,
      <<"p","l","U+00E1","t","a","n","o","s">>,
      <<"p","o","l","l","y">>,
      <<"p","o","p","p","y">>,
      <<"p","r","a","y","e","r">>,
      <<"p","r","i","m","r","o","s","e">>,
      <<"p","u","r","p","l","e">>,
      <<"r","a","b","b","i","t">>,
      <<"r","a","i","n","b","o","w">>,
      <<"r","a","t","t","l","e","s","n","a","k","e">>,
      <<"r","e","d">>,
      <<"r","e","e","d">>,
      <<"r","e","i","n","a">>,
      <<"r","i","b","b","o","n">>,
      <<"r","i","p","p","l","e">>,
      <<"r","o","j","o">>,
      <<"r","o","s","a">>,
      <<"r","o","s","e">>,
      <<"r","u","b","y">>,
      <<"s","e","n","s","a","t","i","o","n">>,
      <<"s","e","r","p","i","e","n","t","e">>,
      <<"s","h","a","m","r","o","c","k">>,
      <<"s","i","l","v","e","r">>,
      <<"s","l","i","p","p","e","r">>,
      <<"s","m","a","l","l">>,
      <<"s","o","n","g">>,
      <<"s","p","e","c","k","l","e","d">>,
      <<"s","p","i","d","e","r">>,
      <<"s","p","i","d","e","r","w","o","r","t">>,
      <<"s","p","l","i","t">>,
      <<"s","p","o","t","t","e","d">>,
      <<"s","t","a","g","h","o","r","n">>,
      <<"s","t","a","r">>,
      <<"s","t","r","i","n","g">>,
      <<"s","t","r","i","p","e","d">>,
      <<"s","u","e","g","r","a">>,
      <<"s","u","m","m","e","r">>,
      <<"s","w","e","e","t">>,
      <<"s","w","i","s","s">>,
      <<"s","w","o","r","d">>,
      <<"t","a","i","l">>,
      <<"t","a","r","o">>,
      <<"t","e","r","c","i","o","p","e","l","o">>,
      <<"t","h","a","n","k","s","g","i","v","i","n","g">>,
      <<"t","o","n","g","u","e">>,
      <<"t","o","r","t","u","g","a">>,
      <<"t","r","a","i","l","i","n","g">>,
      <<"t","r","e","e">>,
      <<"t","r","u","m","p","e","t">>,
      <<"t","u","l","i","p">>,
      <<"t","u","r","t","l","e">>,
      <<"v","a","r","i","e","g","a","t","e","d">>,
      <<"v","e","r","d","e">>,
      <<"v","i","c","t","o","r","i","a">>,
      <<"v","i","o","l","e","t">>,
      <<"w","a","n","d","e","r","i","n","g">>,
      <<"w","a","r","n","e","c","k","i","i">>,
      <<"w","a","t","e","r","m","e","l","o","n">>,
      <<"w","a","v","y","l","e","a","f">>,
      <<"w","a","x">>,
      <<"w","h","i","t","e">>,
      <<"w","i","l","d">>,
      <<"w","i","n","d","o","w">>,
      <<"w","i","n","e">>,
      <<"w","i","n","g">>,
      <<"y","e","l","l","o","w">>,
      <<"y","u","c","c","a">>,
      <<"z","a","n","z","i","b","a","r">>,
      <<"z","e","b","r","a">>,
      <<"z","o","n","a","l">> }

\* str.islower of one character
IsLower(c) == Isaz(c) \/ c = "U+00ED"

\* The end of the run of characters of cs that starts at s[i]: the index of
\* its last character, i - 1 when s[i] is not in cs.
RECURSIVE RunEnd(_, _, _)
RunEnd(s, i, cs) == IF i <= Len(s) /\ s[i] \in cs THEN RunEnd(s, i + 1, cs) ELSE i - 1

\* BINOMIAL_RE, \b([A-Z][a-z]+)\s+([a-z]+(?:\s+[a-z]+)?)\b, matched at s[i]:
\* a capital at a word boundary, its run of small letters, white space, and a
\* run of small letters that ends at a word boundary.
BinomialAt(s, i) ==
    LET g == RunEnd(s, i + 1, LowerSet)
        w == RunEnd(s, g + 1, Space)
        e == RunEnd(s, w + 1, LowerSet)
    IN  /\ IsAZ(s[i]) /\ Boundary(s, i)
        /\ g > i /\ w > g /\ e > w
        /\ Boundary(s, e + 1)

\* group(1) of the match at s[i]
BinomialGenus(s, i) == SubSeq(s, i, RunEnd(s, i + 1, LowerSet))

\* for m in BINOMIAL_RE.finditer(val): m.group(1).lower() not in COMMON_FIRST_WORDS
audit_Binomial(val) ==
    \E i \in 1..Len(val) :
        BinomialAt(val, i) /\ Lower(BinomialGenus(val, i)) \notin COMMON_FIRST_WORDS

\* CULTIVAR_RE.search(val) and any(c.islower() for c in val)
audit_Cultivar(val) == Cultivar(val) /\ \E i \in 1..Len(val) : IsLower(val[i])

\* TAXON_INDICATORS, \b(var\.|subsp\.|subspecies|syn\.|U+00D7)\b with re.I
TAXON_INDICATORS ==
    TaxonWords \cup { <<"s","u","b","s","p","e","c","i","e","s">>, Syn }

\* TAXON_INDICATORS.search(val) or "U+00D7" in val
audit_Taxon(val) ==
    \/ \E w \in TAXON_INDICATORS : \E i \in 1..Len(val) :
           /\ Occurs(Lower(val), w, i)
           /\ Boundary(val, i)
           /\ Boundary(val, i + Len(w))
    \/ Contains(val, <<Times>>)

\* re.search(r"\bsyn\.\s", val, re.I) or "U+540C U+4E49 U+540D" in val
audit_Synonym(val) ==
    \/ \E i \in 1..Len(val) :
           /\ Occurs(Lower(val), Syn, i)
           /\ Boundary(val, i)
           /\ i + 4 <= Len(val) /\ val[i + 4] \in Space
    \/ Contains(val, <<"U+540C U+4E49 U+540D">>)

\* str.split(): the runs of characters that are not white space
RECURSIVE Words(_)
Words(s) ==
    LET t == LStrip(s)
        e == RunEnd(t, 1, {t[i] : i \in 1..Len(t)} \ Space)
    IN  IF t = <<>> THEN <<>>
        ELSE <<SubSeq(t, 1, e)>> \o Words(SubSeq(t, e + 1, Len(t)))

\* len(words) == 1 and words[0].lower() in SCIENTIFIC_GENERA
audit_Genus(val) == Len(Words(val)) = 1 /\ Lower(Words(val)[1]) \in SCIENTIFIC_GENERA

\* re.search(r"\b[A-Z]\.\s*[a-z]+", val)
audit_Abbreviated(val) ==
    \E i \in 1..Len(val) :
        /\ IsAZ(val[i]) /\ Boundary(val, i)
        /\ i + 1 <= Len(val) /\ val[i + 1] = "."
        /\ LET w == RunEnd(val, i + 2, Space)
           IN  w + 1 <= Len(val) /\ Isaz(val[w + 1])

audit_looks_like_scientific_name(value_) ==
    LET val == Strip(value_)
    IN  /\ val # <<>>
        /\ \/ audit_Synonym(val)
           \/ audit_Binomial(val)
           \/ audit_Cultivar(val)
           \/ audit_Taxon(val)
           \/ audit_Genus(val)
           \/ audit_Abbreviated(val)

\* normalize: " ".join(s.lower().split())
normalize(s) == Join(Words(Lower(s)), <<" ">>)

----------------------------------------------------------------------------
(* The resolvers.                                                           *)

RECURSIVE Concat(_)
Concat(qs) == IF qs = <<>> THEN <<>> ELSE Head(qs) \o Concat(Tail(qs))

CommaSpace == <<",", " ">>

\* A slip of the tuple index: the first alias taken for the formal name
Formals_first_alias(segments) == [i \in 1..Len(segments) |-> segments[i][2][1]]

Formals(segments) == [i \in 1..Len(segments) |-> segments[i][1]]
Aliases(segments) == Concat([i \in 1..Len(segments) |-> segments[i][2]])

\* The slice forgotten: every segment is considered
Considered_all(segments, use_first_only) == segments

\* segments[:1] when use_first_only
Considered(segments, use_first_only) ==
    IF use_first_only THEN SubSeq(segments, 1, 1) ELSE segments

InSeq(x, q) == \E i \in 1..Len(q) : q[i] = x

\* The substring rule forgotten: only the alias equal to the type name is redundant
is_redundant_equal_only(alias, type_lower) == Lower(alias) = type_lower

\* is_redundant of both resolvers
is_redundant(alias, type_lower) ==
    LET al == Lower(alias)
    IN  al = type_lower \/ Contains(type_lower, al) \/ Contains(al, type_lower)

\* Returns <<formal_name_if_used, alias_list_if_used>>
get_value_to_add(type_name, segments, use_first_only) ==
    IF segments = <<>> THEN <<None, <<>> >>
    ELSE LET segs == Considered(segments, use_first_only)
             all_formals == Formals(segs)
             all_aliases == Aliases(segs)
             type_lower == Lower(type_name)
             aliases_lower == MapSeq(Lower, all_aliases)
             NotRedundant(a) == ~is_redundant(a, type_lower)
         IN  IF InSeq(type_lower, aliases_lower)
             THEN <<Join(all_formals, CommaSpace), <<>> >>
             ELSE <<None, SelectSeq(all_aliases, NotRedundant)>>

\* Returns <<value, is_nickname_type>>.  The loop of lines 125-133 only
\* rebinds the local name formal, which is not read afterwards.
get_complementary_value(type_name, segments, use_first_only) ==
    IF segments = <<>> THEN <<None, FALSE>>
    ELSE LET segs == Considered(segments, use_first_only)
             all_formals == Formals(segs)
             all_aliases == Aliases(segs)
             type_lower == Lower(type_name)
             aliases_lower == MapSeq(Lower, all_aliases)
             Keep(a) == /\ ~is_redundant(a, type_lower)
                        /\ ~looks_like_scientific_name(a)
                        /\ Lower(a) \notin ensure_EXCLUDE_GENERIC
             filtered == SelectSeq(all_aliases, Keep)
         IN  IF InSeq(type_lower, aliases_lower)
             THEN <<Join(all_formals, CommaSpace), TRUE>>
             ELSE <<IF filtered # <<>> THEN Join(filtered, CommaSpace) ELSE None, FALSE>>

----------------------------------------------------------------------------
(* Entries of a language file, and the two appliers.                        *)

\* entry.get(k)
Get(entry, k) == IF k \in DOMAIN entry THEN entry[k] ELSE None

Truthy(v) == v # None /\ v # <<>>

\* entry.get(k) or ""
GetOrEmpty(entry, k) == IF Truthy(Get(entry, k)) THEN Get(entry, k) ELSE <<>>

\* entry[k] = v
Put(entry, k, v) == [f \in DOMAIN entry \cup {k} |-> IF f = k THEN v ELSE entry[f]]

\* species_to_plant.get(formal)
MapGet(m, k) == IF k \in DOMAIN m THEN m[k] ELSE None

EmptyMap == [k \in {} |-> None]

\* base_desc.endswith((".", "U+3002", "!"))
Terminal == {".", IdeoStop, "!"}

\* if len(segments) > 3: continue
MAX_SEGMENTS == 3

IsPlant(entry) == "_metadata" \notin DOMAIN entry /\ Truthy(Get(entry, "id"))

\* The candidates of build_species_to_plant_map, in file order:
\* <<formal, plant_id, num_segments>>
RECURSIVE Candidates(_)
Candidates(en_data) ==
    IF en_data = <<>> THEN <<>>
    ELSE LET entry == Head(en_data)
             segments == add_parse_common_examples(GetOrEmpty(entry, "commonExamples"))
             formal == Strip(segments[1][1])
         IN  (IF IsPlant(entry) /\ segments # <<>> /\ formal # <<>>
              THEN << <<formal, Get(entry, "id"), Len(segments)>> >>
              ELSE <<>>) \o Candidates(Tail(en_data))

\* No sort: the first candidate of a formal name in file order is mapped
build_species_to_plant_map_file_order(en_data) ==
    LET candidates == Candidates(en_data)
        I == 1..Len(candidates)
        First(f) == CHOOSE i \in I :
                        /\ candidates[i][1] = f
                        /\ \A j \in I : candidates[j][1] = f => i <= j
    IN  [f \in {candidates[i][1] : i \in I} |-> candidates[First(f)][2]]

\* build_species_to_plant_map over the loaded English file: each first-segment
\* formal name maps to the candidate with the fewest segments, the first in
\* file order on a tie (the sort is stable).
build_species_to_plant_map(en_data) ==
    LET candidates == Candidates(en_data)
        I == 1..Len(candidates)
        Before(i, j) == \/ candidates[i][3] < candidates[j][3]
                        \/ candidates[i][3] = candidates[j][3] /\ i <= j
        First(f) == CHOOSE i \in I :
                        /\ candidates[i][1] = f
                        /\ \A j \in I : candidates[j][1] = f => Before(i, j)
    IN  [f \in {candidates[i][1] : i \in I} |-> candidates[First(f)][2]]

\* A skipped entry is counted all the same
Skip_counted(entry) == [entry |-> entry, changed |-> TRUE, value |-> None]

Skip(entry) == [entry |-> entry, changed |-> FALSE, value |-> None]

\* The aliases joined with "," alone
add_Value_bare_comma(r) ==
    IF Truthy(r[1]) THEN r[1]
    ELSE IF r[2] # <<>> THEN Join(r[2], <<",">>)
    ELSE None

\* value of add's process_file from what get_value_to_add returned: the formal
\* name, else the aliases joined, else nothing
add_Value(r) ==
    IF Truthy(r[1]) THEN r[1]
    ELSE IF r[2] # <<>> THEN Join(r[2], CommaSpace)
    ELSE None

\* One turn of the loop of add_common_alias_to_description.process_file.
add_Entry(entry, l, dry_run, stp) ==
    IF ~IsPlant(entry) THEN Skip(entry)
    ELSE
    LET plant_id == Get(entry, "id")
        type_name == GetOrEmpty(entry, "typeName")
        description == GetOrEmpty(entry, "description")
        segments == add_parse_common_examples(GetOrEmpty(entry, "commonExamples"))
    IN  IF segments = <<>> THEN Skip(entry)
        ELSE IF MapGet(stp, Strip(segments[1][1])) # plant_id THEN Skip(entry)
        ELSE IF Len(segments) > MAX_SEGMENTS THEN Skip(entry)
        ELSE
        LET value_ == add_Value(get_value_to_add(type_name, segments, TRUE))
        IN  IF ~Truthy(value_) THEN Skip(entry)
            ELSE
            LET alias_str == build_alias_string(value_, l)
                stripped == IF already_has_alias_phrase(description, l)
                            THEN strip_existing_alias(description, l)
                            ELSE RStrip(description)
                base == IF stripped = <<>> THEN RStrip(description) ELSE stripped
                base_desc == IF base # <<>> /\ ~EndsWithAny(base, Terminal)
                             THEN base \o <<".">> ELSE base
                new_desc == IF base_desc # <<>> THEN alias_str \o <<" ">> \o base_desc
                            ELSE alias_str
            IN  IF description = new_desc
                THEN [entry |-> entry, changed |-> FALSE, value |-> value_]
                ELSE [entry |-> IF dry_run THEN entry
                                ELSE Put(entry, "description", new_desc),
                      changed |-> TRUE, value |-> value_]

\* One turn of the loop of ensure_complementary_aka.process_file.
ensure_Entry(entry, l, dry_run) ==
    IF ~IsPlant(entry) THEN Skip(entry)
    ELSE
    LET type_name == GetOrEmpty(entry, "typeName")
        description == GetOrEmpty(entry, "description")
        segments == ensure_parse_common_examples(GetOrEmpty(entry, "commonExamples"))
    IN  IF segments = <<>> THEN Skip(entry)
        ELSE
        LET complementary == get_complementary_value(type_name, segments, TRUE)[1]
        IN  IF ~Truthy(complementary) THEN Skip(entry)
            ELSE
            LET base == strip_aka_block(description, l)
                base_desc == IF base # <<>> /\ ~EndsWithAny(base, Terminal)
                             THEN base \o <<".">> ELSE base
                block == build_aka_block(complementary, l)
                new_desc == IF base_desc # <<>> THEN block \o <<" ">> \o base_desc
                            ELSE block
            IN  IF new_desc = description
                THEN [entry |-> entry, changed |-> FALSE, value |-> complementary]
                ELSE [entry |-> IF dry_run THEN entry
                                ELSE Put(entry, "description", new_desc),
                      changed |-> TRUE, value |-> complementary]

\* What a run of process_file leaves: the file, the count returned and, per
\* entry, the value resolved for it.
\* The file is dumped whenever updated > 0, in a dry run too
Outcome_writes_in_preview(d, rs, raises, dry_run) ==
    LET count == Cardinality({i \in 1..Len(rs) : rs[i].changed})
        write == count > 0
    IN  IF raises
        THEN [data |-> d, updated |-> 0, written |-> FALSE, raised |-> TRUE,
              resolved |-> [i \in 1..Len(d) |-> None]]
        ELSE [data |-> IF write THEN [i \in 1..Len(rs) |-> rs[i].entry] ELSE d,
              updated |-> count, written |-> write, raised |-> FALSE,
              resolved |-> [i \in 1..Len(rs) |-> rs[i].value]]

\* An exception leaves the loop and process_file at once: nothing is written
\* and nothing is returned.  Otherwise the entries as the loop left them are
\* dumped to the file when the run is not a dry run and updated > 0.
Outcome(d, rs, raises, dry_run) ==
    LET count == Cardinality({i \in 1..Len(rs) : rs[i].changed})
        write == ~dry_run /\ count > 0
    IN  IF raises
        THEN [data |-> d, updated |-> 0, written |-> FALSE, raised |-> TRUE,
              resolved |-> [i \in 1..Len(d) |-> None]]
        ELSE [data |-> IF write THEN [i \in 1..Len(rs) |-> rs[i].entry] ELSE d,
              updated |-> count, written |-> write, raised |-> FALSE,
              resolved |-> [i \in 1..Len(rs) |-> rs[i].value]]

\* Whether a turn of add's loop raises: type_name.lower() in get_value_to_add
\* on a type name that is no str, "phrase in description" on a description
\* that is no str.
add_Raises(entry, stp) ==
    /\ IsPlant(entry)
    /\ LET type_name == GetOrEmpty(entry, "typeName")
           description == GetOrEmpty(entry, "description")
           segments == add_parse_common_examples(GetOrEmpty(entry, "commonExamples"))
       IN  /\ segments # <<>>
           /\ MapGet(stp, Strip(segments[1][1])) = Get(entry, "id")
           /\ Len(segments) <= MAX_SEGMENTS
           /\ \/ ~IsStr(type_name)
              \/ /\ Truthy(add_Value(get_value_to_add(type_name, segments, TRUE)))
                 /\ ~IsStr(description)

\* Whether a turn of ensure's loop raises: type_name.lower() in
\* get_complementary_value, "phrase not in description" in strip_aka_block.
ensure_Raises(entry) ==
    /\ IsPlant(entry)
    /\ LET type_name == GetOrEmpty(entry, "typeName")
           description == GetOrEmpty(entry, "description")
           segments == ensure_parse_common_examples(GetOrEmpty(entry, "commonExamples"))
       IN  /\ segments # <<>>
           /\ \/ ~IsStr(type_name)
              \/ /\ Truthy(get_complementary_value(type_name, segments, TRUE)[1])
                 /\ ~IsStr(description)

\* Every entry is resolved under the type name of the first entry
add_process_file_first_name(d, l, dry_run, stp) ==
    Outcome(d, [i \in 1..Len(d) |->
                    add_Entry(Put(d[i], "typeName", Get(d[1], "typeName")), l, dry_run, stp)],
            \E i \in 1..Len(d) : add_Raises(d[i], stp), dry_run)

add_process_file(d, l, dry_run, stp) ==
    Outcome(d, [i \in 1..Len(d) |-> add_Entry(d[i], l, dry_run, stp)],
            \E i \in 1..Len(d) : add_Raises(d[i], stp), dry_run)

ensure_process_file(d, l, dry_run) ==
    Outcome(d, [i \in 1..Len(d) |-> ensure_Entry(d[i], l, dry_run)],
            \E i \in 1..Len(d) : ensure_Raises(d[i]), dry_run)

----------------------------------------------------------------------------
(* scripts/audit_also_known_as.py: its parser, its three checks and fixes.  *)

\* The copy of the parser in audit_also_known_as.py: like the one of
\* ensure_complementary_aka.py it tests the token before it is trimmed.
audit_KeepAlias(a) ==
    /\ Strip(a) # <<>>
    /\ Lower(a) \notin EXCLUDE_GENERIC
    /\ ~StartsWith(Lower(a), Syn)

audit_Segment(m) ==
    LET formal == Strip(m[1])
        paren == AfterSemicolon(Strip(m[2]))
        aliases == MapSeq(Strip, SelectSeq(Split(paren, ","), audit_KeepAlias))
    IN  <<formal, aliases>>

audit_parse_common_examples(common_examples) ==
    IF ReturnsEmpty(common_examples) THEN <<>>
    ELSE SelectSeq(MapSeq(audit_Segment, FindIter(common_examples, 1)), KeepSegment)

\* entry.get(k, "")
GetDefault(entry, k) == IF k \in DOMAIN entry THEN entry[k] ELSE <<>>

\* q[:3]
FirstThree(q) == SubSeq(q, 1, IF Len(q) < 3 THEN Len(q) ELSE 3)

\* [p.strip() for p in aka.split(",")]
Parts(aka) == MapSeq(Strip, Split(aka, ","))

audit_IsScientific(part) == audit_looks_like_scientific_name(part)
audit_NotScientific(part) == ~audit_looks_like_scientific_name(part)

get_valid_aliases(type_name, common_examples) ==
    LET all_aliases == Aliases(audit_parse_common_examples(common_examples))
        Valid(a) == Lower(a) # Lower(type_name) /\ ~audit_looks_like_scientific_name(a)
    IN  SelectSeq(all_aliases, Valid)

\* The formal name of the first segment, in file order, one of whose aliases
\* is the type name; None without one.
get_formal_name_for_nickname(type_name, common_examples) ==
    LET segments == audit_parse_common_examples(common_examples)
        Hit == {i \in 1..Len(segments) :
                    \E j \in 1..Len(segments[i][2]) :
                        Lower(segments[i][2][j]) = Lower(type_name)}
    IN  IF Hit = {} THEN None
        ELSE Strip(segments[CHOOSE i \in Hit : \A j \in Hit : i <= j][1])

\* base_desc += "." unless it is empty or ends with one of the marks
WithStop(base, marks) ==
    IF base # <<>> /\ ~EndsWithAny(base, marks) THEN base \o <<".">> ELSE base

\* f"{block} {base_desc}" if base_desc else block
Spliced(block, base_desc) ==
    IF base_desc # <<>> THEN block \o <<" ">> \o base_desc ELSE block

Kept(entry) == [entry |-> entry, changed |-> FALSE]

\* entry["description"] = new_desc; fixed += 1, when new_desc differs
Rewrite(entry, new_desc) ==
    IF entry["description"] # new_desc
    THEN [entry |-> Put(entry, "description", new_desc), changed |-> TRUE]
    ELSE Kept(entry)

\* Whether audit_scientific lists the entry
audit_scientific_Entry(entry, l) ==
    /\ "_metadata" \notin DOMAIN entry
    /\ LET aka == extract_aka(GetDefault(entry, "description"), l)
       IN  Truthy(aka) /\ SelectSeq(Parts(aka), audit_IsScientific) # <<>>

\* One turn of the loop of fix_scientific
fix_scientific_Entry(entry, l) ==
    IF ~audit_scientific_Entry(entry, l) THEN Kept(entry)
    ELSE
    LET aka == extract_aka(GetDefault(entry, "description"), l)
        valid_alternatives == get_valid_aliases(GetDefault(entry, "typeName"),
                                                GetDefault(entry, "commonExamples"))
        valid_parts == SelectSeq(Parts(aka), audit_NotScientific)
        base_desc == WithStop(audit_strip_aka_block(entry["description"], l), {".", IdeoStop})
    IN  IF valid_alternatives = <<>> /\ valid_parts = <<>>
        THEN [entry |-> Put(entry, "description", base_desc), changed |-> TRUE]
        ELSE LET new_value == IF valid_alternatives # <<>>
                              THEN Join(FirstThree(valid_alternatives), CommaSpace)
                              ELSE Join(valid_parts, CommaSpace)
             IN  Rewrite(entry, Spliced(build_aka_block(new_value, l), base_desc))

is_redundant_part(type_name, aka_part) ==
    LET tn == normalize(type_name)
        part == normalize(aka_part)
    IN  tn = part \/ Contains(tn, part)

\* re.match(r"^[A-Z][a-z]+$", n) on a name without a space
looks_scientific_simple(name) ==
    LET n == Strip(name)
    IN  /\ n # <<>> /\ ~Contains(n, <<" ">>)
        /\ IsAZ(n[1]) /\ Len(n) >= 2 /\ \A i \in 2..Len(n) : Isaz(n[i])

get_valid_alternatives(type_name, common_examples, current_aka) ==
    LET segments == audit_parse_common_examples(common_examples)
        aliases == IF segments = <<>> THEN <<>> ELSE segments[1][2]
        current_parts == {normalize(Parts(current_aka)[i]) : i \in 1..Len(Parts(current_aka))}
        Valid(a) == /\ ~is_redundant_part(type_name, a)
                    /\ normalize(a) \notin current_parts
                    /\ ~looks_scientific_simple(a)
    IN  SelectSeq(aliases, Valid)

\* <<new_aka, changed>>
filter_redundant_aka(type_name, aka) ==
    LET NotRedundant(part) == ~is_redundant_part(type_name, part)
        kept == SelectSeq(Parts(aka), NotRedundant)
    IN  IF kept = <<>> THEN <<None, TRUE>>
        ELSE <<Join(kept, CommaSpace), Join(kept, CommaSpace) # aka>>

\* Whether audit_duplicate_typename lists the entry
audit_duplicate_typename_Entry(entry, l) ==
    /\ "_metadata" \notin DOMAIN entry
    /\ LET aka == extract_aka(GetDefault(entry, "description"), l)
       IN  /\ Truthy(aka)
           /\ LET f == filter_redundant_aka(GetDefault(entry, "typeName"), aka)
              IN  f[2] \/ ~Truthy(f[1])

\* One turn of the loop of fix_duplicate_typename
fix_duplicate_typename_Entry(entry, l) ==
    IF ~audit_duplicate_typename_Entry(entry, l) THEN Kept(entry)
    ELSE
    LET aka == extract_aka(GetDefault(entry, "description"), l)
        new_aka == filter_redundant_aka(GetDefault(entry, "typeName"), aka)[1]
        base_desc == WithStop(audit_strip_aka_block(entry["description"], l), Terminal)
        alternatives == get_valid_alternatives(GetDefault(entry, "typeName"),
                                               GetDefault(entry, "commonExamples"), aka)
    IN  IF Truthy(new_aka)
        THEN Rewrite(entry, Spliced(build_aka_block(new_aka, l), base_desc))
        ELSE IF alternatives # <<>>
        THEN Rewrite(entry, Spliced(build_aka_block(Join(FirstThree(alternatives), CommaSpace), l),
                                    base_desc))
        ELSE Rewrite(entry, base_desc)

\* {normalize(a) for _, aliases in segments[1:] for a in aliases}
OtherAliases(segments) ==
    LET later == Aliases(Tail(segments))
    IN  {normalize(later[i]) : i \in 1..Len(later)}

\* Whether audit_subspecies lists the entry
audit_subspecies_Entry(entry, l) ==
    /\ "_metadata" \notin DOMAIN entry
    /\ LET aka == extract_aka(GetDefault(entry, "description"), l)
           segments == audit_parse_common_examples(GetDefault(entry, "commonExamples"))
       IN  /\ Truthy(aka)
           /\ Len(segments) >= 2
           /\ \E i \in 1..Len(Parts(aka)) : normalize(Parts(aka)[i]) \in OtherAliases(segments)

\* One turn of the loop of fix_subspecies
fix_subspecies_Entry(entry, l) ==
    IF ~audit_subspecies_Entry(entry, l) THEN Kept(entry)
    ELSE
    LET aka == extract_aka(GetDefault(entry, "description"), l)
        segments == audit_parse_common_examples(GetDefault(entry, "commonExamples"))
        type_name == GetDefault(entry, "typeName")
        NotOther(part) == normalize(part) \notin OtherAliases(segments)
        valid_parts == SelectSeq(Parts(aka), NotOther)
        FirstValid(a) == ~(Lower(a) = Lower(type_name)
                           \/ Contains(normalize(type_name), normalize(a)))
        first_valid == SelectSeq(segments[1][2], FirstValid)
        base_desc == WithStop(audit_strip_aka_block(entry["description"], l), Terminal)
    IN  IF valid_parts # <<>>
        THEN Rewrite(entry, Spliced(build_aka_block(Join(valid_parts, CommaSpace), l), base_desc))
        ELSE IF first_valid # <<>>
        THEN Rewrite(entry, Spliced(build_aka_block(Join(FirstThree(first_valid), CommaSpace), l),
                                    base_desc))
        ELSE Rewrite(entry, base_desc)

\* A fix function over the file: the entries it leaves and the count it returns
Fixed(rs) ==
    [data |-> [i \in 1..Len(rs) |-> rs[i].entry],
     fixed |-> Cardinality({i \in 1..Len(rs) : rs[i].changed})]

fix_scientific(d, l) == Fixed([i \in 1..Len(d) |-> fix_scientific_Entry(d[i], l)])

fix_duplicate_typename(d, l) ==
    Fixed([i \in 1..Len(d) |-> fix_duplicate_typename_Entry(d[i], l)])

fix_subspecies(d, l) == Fixed([i \in 1..Len(d) |-> fix_subspecies_Entry(d[i], l)])

\* audit_also_known_as.py --fix on one language file: the three fixes in
\* turn, each run once on the file as the one before left it.
audit_fix(d, l) ==
    CHOOSE out \in
        UNION { UNION { { [data |-> sub.data,
                           updated |-> sci.fixed + dup.fixed + sub.fixed,
                           written |-> sci.fixed + dup.fixed + sub.fixed > 0,
                           raised |-> FALSE,
                           resolved |-> [i \in 1..Len(d) |-> None]]
                          : sub \in {fix_subspecies(dup.data, l)} }
                        : dup \in {fix_duplicate_typename(sci.data, l)} }
                : sci \in {fix_scientific(d, l)} } : TRUE

\* audit_also_known_as.py without --fix: the entries each check lists, and
\* the exit status, 1 when a check lists any
audit_report(d, l) ==
    LET sci == {i \in 1..Len(d) : audit_scientific_Entry(d[i], l)}
        dup == {i \in 1..Len(d) : audit_duplicate_typename_Entry(d[i], l)}
        sub == {i \in 1..Len(d) : audit_subspecies_Entry(d[i], l)}
    IN  [scientific |-> sci, duplicate |-> dup, subspecies |-> sub,
         exit |-> IF sci \cup dup \cup sub = {} THEN 0 ELSE 1]

----------------------------------------------------------------------------
(* scripts/add_dormancy_notes.py: the note appended to careTips.            *)

\* DORMANCY_SUFFIX of add_dormancy_notes.py
DORMANCY_SUFFIX ==
    [bulbs |->
        <<" ","B","u","l","b","s"," ","g","o"," ","d","o","r","m","a","n",
        "t"," ","a","f","t","e","r"," ","f","l","o","w","e","r","i","n","g",
        ";"," ","r","e","d","u","c","e"," ","w","a","t","e","r","i","n","g",
        " ","w","h","e","n"," ","f","o","l","i","a","g","e"," ","d","i","e",
        "s"," ","b","a","c","k",".">>,
     deciduous_trees |->
        <<" ","D","e","c","i","d","u","o","u","s",";"," ","r","e","d","u",
        "c","e"," ","o","r"," ","w","i","t","h","h","o","l","d"," ","w","a",
        "t","e","r","i","n","g"," ","w","h","e","n"," ","l","e","a","v","e",
        "s"," ","d","r","o","p"," ","i","n"," ","f","a","l","l",".">>,
     deciduous_shrubs |->
        <<" ","D","e","c","i","d","u","o","u","s"," ","v","a","r","i","e",
        "t","i","e","s",":"," ","r","e","d","u","c","e"," ","w","a","t","e",
        "r","i","n","g"," ","w","h","e","n"," ","d","o","r","m","a","n","t",
        " ","i","n"," ","w","i","n","t","e","r",".">>,
     evergreen_outdoor |->
        <<" ","E","v","e","r","g","r","e","e","n",";"," ","r","e","d","u",
        "c","e"," ","w","a","t","e","r","i","n","g"," ","i","n"," ","w","i",
        "n","t","e","r"," ","w","h","e","n"," ","g","r","o","w","t","h"," ",
        "s","l","o","w","s",".">>,
     annuals |->
        <<" ","A","n","n","u","a","l",";"," ","g","r","o","w","n"," ","f",
        "o","r"," ","o","n","e"," ","s","e","a","s","o","n",";"," ","n","o",
        " ","w","i","n","t","e","r"," ","w","a","t","e","r","i","n","g"," ",
        "n","e","e","d","e","d",".">>,
     vegetables |->
        <<" ","S","e","a","s","o","n","a","l"," ","c","r","o","p",";"," ",
        "w","a","t","e","r","i","n","g"," ","v","a","r","i","e","s"," ","b",
        "y"," ","g","r","o","w","i","n","g"," ","z","o","n","e"," ","a","n",
        "d"," ","h","a","r","v","e","s","t"," ","t","i","m","i","n","g",
        ".">>,
     herbs |->
        <<" ","R","e","d","u","c","e"," ","w","a","t","e","r","i","n","g",
        " ","i","n"," ","w","i","n","t","e","r"," ","w","h","e","n"," ","g",
        "r","o","w","t","h"," ","s","l","o","w","s",".">>,
     fruit_trees |->
        <<" ","R","e","d","u","c","e"," ","w","a","t","e","r","i","n","g",
        " ","w","h","e","n"," ","d","o","r","m","a","n","t"," ","i","n"," ",
        "w","i","n","t","e","r",".">>,
     perennials |->
        <<" ","H","e","r","b","a","c","e","o","u","s"," ","p","e","r","e",
        "n","n","i","a","l","s"," ","d","i","e"," ","b","a","c","k",";"," ",
        "r","e","d","u","c","e"," ","w","a","t","e","r","i","n","g"," ","w",
        "h","e","n"," ","d","o","r","m","a","n","t",".">>,
     ferns_deciduous |->
        <<" ","D","e","c","i","d","u","o","u","s",";"," ","r","e","d","u",
        "c","e"," ","w","a","t","e","r","i","n","g"," ","w","h","e","n"," ",
        "f","r","o","n","d","s"," ","d","i","e"," ","b","a","c","k"," ","i",
        "n"," ","f","a","l","l",".">>,
     gloxinia |->
        <<" ","T","u","b","e","r","o","u","s",";"," ","g","o","e","s"," ",
        "d","o","r","m","a","n","t"," ","a","f","t","e","r"," ","f","l","o",
        "w","e","r","i","n","g","U+2014","r","e","d","u","c","e"," ","w","a",
        "t","e","r","i","n","g"," ","u","n","t","i","l"," ","n","e","w"," ",
        "g","r","o","w","t","h",".">>,
     aquatic |->
        <<" ","A","q","u","a","t","i","c",";"," ","w","i","n","t","e","r",
        " ","c","a","r","e"," ","v","a","r","i","e","s"," ","b","y"," ","H",
        "a","r","d","i","n","e","s","s"," ","Z","o","n","e",".">>,
     alpine |->
        <<" ","A","l","p","i","n","e",";"," ","r","e","d","u","c","e"," ",
        "w","a","t","e","r","i","n","g"," ","w","h","e","n"," ","d","o","r",
        "m","a","n","t",";"," ","a","v","o","i","d"," ","w","i","n","t","e",
        "r"," ","w","e","t",".">>]

\* DORMANCY_ES of add_dormancy_notes.py
DORMANCY_ES ==
    [bulbs |->
        <<" ","L","o","s"," ","b","u","l","b","o","s"," ","e","n","t","r",
        "a","n"," ","e","n"," ","l","a","t","e","n","c","i","a"," ","t","r",
        "a","s"," ","l","a"," ","f","l","o","r","a","c","i","U+00F3","n",";",
        " ","r","e","d","u","c","i","r"," ","e","l"," ","r","i","e","g","o",
        " ","c","u","a","n","d","o"," ","e","l"," ","f","o","l","l","a","j",
        "e"," ","s","e"," ","m","a","r","c","h","i","t","e",".">>,
     deciduous_trees |->
        <<" ","C","a","d","u","c","i","f","o","l","i","o",";"," ","r","e",
        "d","u","c","i","r"," ","o"," ","s","u","s","p","e","n","d","e","r",
        " ","e","l"," ","r","i","e","g","o"," ","c","u","a","n","d","o"," ",
        "c","a","i","g","a","n"," ","l","a","s"," ","h","o","j","a","s"," ",
        "e","n"," ","o","t","o","U+00F1","o",".">>,
     deciduous_shrubs |->
        <<" ","V","a","r","i","e","d","a","d","e","s"," ","c","a","d","u",
        "c","i","f","o","l","i","a","s",":"," ","r","e","d","u","c","i","r",
        " ","e","l"," ","r","i","e","g","o"," ","c","u","a","n","d","o"," ",
        "e","s","t","U+00E9","n"," ","l","a","t","e","n","t","e","s"," ","e",
        "n"," ","i","n","v","i","e","r","n","o",".">>,
     evergreen_outdoor |->
        <<" ","P","e","r","e","n","n","e",";"," ","r","e","d","u","c","i",
        "r"," ","e","l"," ","r","i","e","g","o"," ","e","n"," ","i","n","v",
        "i","e","r","n","o"," ","c","u","a","n","d","o"," ","e","l"," ","c",
        "r","e","c","i","m","i","e","n","t","o"," ","s","e"," ","r","a","l",
        "e","n","t","i","c","e",".">>,
     annuals |->
        <<" ","A","n","u","a","l",";"," ","c","u","l","t","i","v","a","d",
        "a"," ","u","n","a"," ","t","e","m","p","o","r","a","d","a",";"," ",
        "n","o"," ","r","e","q","u","i","e","r","e"," ","r","i","e","g","o",
        " ","i","n","v","e","r","n","a","l",".">>,
     vegetables |->
        <<" ","C","u","l","t","i","v","o"," ","e","s","t","a","c","i","o",
        "n","a","l",";"," ","e","l"," ","r","i","e","g","o"," ","v","a","r",
        "U+00ED","a"," ","s","e","g","U+00FA","n"," ","l","a"," ","z","o",
        "n","a"," ","y"," ","e","l"," ","m","o","m","e","n","t","o"," ","d",
        "e"," ","c","o","s","e","c","h","a",".">>,
     herbs |->
        <<" ","R","e","d","u","c","i","r"," ","e","l"," ","r","i","e","g",
        "o"," ","e","n"," ","i","n","v","i","e","r","n","o"," ","c","u","a",
        "n","d","o"," ","e","l"," ","c","r","e","c","i","m","i","e","n","t",
        "o"," ","s","e"," ","r","a","l","e","n","t","i","c","e",".">>,
     fruit_trees |->
        <<" ","R","e","d","u","c","i","r"," ","e","l"," ","r","i","e","g",
        "o"," ","c","u","a","n","d","o"," ","e","s","t","U+00E9","n"," ","l",
        "a","t","e","n","t","e","s"," ","e","n"," ","i","n","v","i","e","r",
        "n","o",".">>,
     perennials |->
        <<" ","L","a","s"," ","h","e","r","b","U+00E1","c","e","a","s"," ",
        "p","e","r","e","n","n","e","s"," ","s","e"," ","m","a","r","c","h",
        "i","t","a","n",";"," ","r","e","d","u","c","i","r"," ","e","l"," ",
        "r","i","e","g","o"," ","c","u","a","n","d","o"," ","e","s","t",
        "U+00E9","n"," ","l","a","t","e","n","t","e","s",".">>,
     ferns_deciduous |->
        <<" ","C","a","d","u","c","i","f","o","l","i","o",";"," ","r","e",
        "d","u","c","i","r"," ","e","l"," ","r","i","e","g","o"," ","c","u",
        "a","n","d","o"," ","l","a","s"," ","f","r","o","n","d","a","s"," ",
        "s","e"," ","m","a","r","c","h","i","t","e","n"," ","e","n"," ","o",
        "t","o","U+00F1","o",".">>,
     gloxinia |->
        <<" ","T","u","b","e","r","o","s","a",";"," ","e","n","t","r","a",
        " ","e","n"," ","l","a","t","e","n","c","i","a"," ","t","r","a","s",
        " ","l","a"," ","f","l","o","r","a","c","i","U+00F3","n","U+2014",
        "r","e","d","u","c","i","r"," ","e","l"," ","r","i","e","g","o"," ",
        "h","a","s","t","a"," ","q","u","e"," ","h","a","y","a"," ","n","u",
        "e","v","o"," ","c","r","e","c","i","m","i","e","n","t","o",".">>,
     aquatic |->
        <<" ","A","c","u","U+00E1","t","i","c","a",";"," ","e","l"," ","c",
        "u","i","d","a","d","o"," ","i","n","v","e","r","n","a","l"," ","v",
        "a","r","U+00ED","a"," ","s","e","g","U+00FA","n"," ","l","a"," ",
        "z","o","n","a"," ","d","e"," ","r","u","s","t","i","c","i","d","a",
        "d",".">>,
     alpine |->
        <<" ","A","l","p","i","n","a",";"," ","r","e","d","u","c","i","r",
        " ","e","l"," ","r","i","e","g","o"," ","c","u","a","n","d","o"," ",
        "e","s","t","U+00E9"," ","l","a","t","e","n","t","e",";"," ","e","v",
        "i","t","a","r"," ","h","u","m","e","d","a","d"," ","i","n","v","e",
        "r","n","a","l",".">>]

\* DORMANCY_ZH of add_dormancy_notes.py
DORMANCY_ZH ==
    [bulbs |->
        <<" ","U+7403","U+6839","U+5F00","U+82B1","U+540E","U+4F11","U+7720",
        "U+FF1B","U+53F6","U+7247","U+67AF","U+840E","U+65F6","U+51CF",
        "U+5C11","U+6D47","U+6C34","U+3002">>,
     deciduous_trees |->
        <<" ","U+843D","U+53F6","U+6811","U+79CD","U+FF1B","U+79CB","U+5B63",
        "U+843D","U+53F6","U+540E","U+51CF","U+5C11","U+6216","U+505C",
        "U+6B62","U+6D47","U+6C34","U+3002">>,
     deciduous_shrubs |->
        <<" ","U+843D","U+53F6","U+54C1","U+79CD","U+FF1A","U+51AC","U+5B63",
        "U+4F11","U+7720","U+65F6","U+51CF","U+5C11","U+6D47","U+6C34",
        "U+3002">>,
     evergreen_outdoor |->
        <<" ","U+5E38","U+7EFF","U+FF1B","U+51AC","U+5B63","U+751F","U+957F",
        "U+653E","U+7F13","U+65F6","U+51CF","U+5C11","U+6D47","U+6C34",
        "U+3002">>,
     annuals |->
        <<" ","U+4E00","U+5E74","U+751F","U+FF1B","U+5355","U+5B63","U+79CD",
        "U+690D","U+FF1B","U+51AC","U+5B63","U+65E0","U+9700","U+6D47",
        "U+6C34","U+3002">>,
     vegetables |->
        <<" ","U+5B63","U+8282","U+6027","U+4F5C","U+7269","U+FF1B","U+6D47",
        "U+6C34","U+56E0","U+79CD","U+690D","U+533A","U+548C","U+6536",
        "U+83B7","U+65F6","U+95F4","U+800C","U+5F02","U+3002">>,
     herbs |->
        <<" ","U+51AC","U+5B63","U+751F","U+957F","U+653E","U+7F13","U+65F6",
        "U+51CF","U+5C11","U+6D47","U+6C34","U+3002">>,
     fruit_trees |->
        <<" ","U+51AC","U+5B63","U+4F11","U+7720","U+65F6","U+51CF","U+5C11",
        "U+6D47","U+6C34","U+3002">>,
     perennials |->
        <<" ","U+591A","U+5E74","U+751F","U+8349","U+672C","U+67AF","U+840E",
        "U+FF1B","U+4F11","U+7720","U+65F6","U+51CF","U+5C11","U+6D47",
        "U+6C34","U+3002">>,
     ferns_deciduous |->
        <<" ","U+843D","U+53F6","U+FF1B","U+79CB","U+5B63","U+53F6","U+7247",
        "U+67AF","U+840E","U+65F6","U+51CF","U+5C11","U+6D47","U+6C34",
        "U+3002">>,
     gloxinia |->
        <<" ","U+5757","U+830E","U+FF1B","U+5F00","U+82B1","U+540E","U+4F11",
        "U+7720","U+2014","U+51CF","U+5C11","U+6D47","U+6C34","U+76F4",
        "U+81F3","U+65B0","U+82BD","U+751F","U+957F","U+3002">>,
     aquatic |->
        <<" ","U+6C34","U+751F","U+FF1B","U+51AC","U+5B63","U+517B","U+62A4",
        "U+56E0","U+8010","U+5BD2","U+533A","U+800C","U+5F02","U+3002">>,
     alpine |->
        <<" ","U+9AD8","U+5C71","U+690D","U+7269","U+FF1B","U+4F11","U+7720",
        "U+65F6","U+51CF","U+5C11","U+6D47","U+6C34","U+FF1B","U+907F",
        "U+514D","U+51AC","U+5B63","U+79EF","U+6C34","U+3002">>]

ContainsAny(s, ps) == \E p \in ps : Contains(s, p)

\* add_dormancy_note: the note is appended unless tips or suffix is empty or
\* tips holds one of the words that mark a note.
add_dormancy_note(tips, suffix) ==
    IF tips = <<>> \/ tips = None \/ suffix = <<>> THEN tips
    ELSE IF \/ ContainsAny(Lower(tips), {<<"d","o","r","m","a","n","t">>, <<"d","o","r","m","a","n","c","y">>})
            \/ ContainsAny(tips, {<<"U+4F11","U+7720">>, <<"l","a","t","e","n","c","i","a">>, <<"l","a","t","e","n","t","e">>})
         THEN tips
    ELSE IF ContainsAny(tips, {<<"D","e","c","i","d","u","o","u","s">>, <<"U+843D","U+53F6">>, <<"c","a","d","u","c","i","f","o","l","i","o">>})
         THEN tips
    ELSE IF ContainsAny(tips, {<<"A","n","n","u","a","l">>, <<"U+4E00","U+5E74","U+751F">>, <<"A","n","u","a","l">>})
         THEN tips
    ELSE IF ContainsAny(tips, {<<"S","e","a","s","o","n","a","l"," ","c","r","o","p">>, <<"U+5B63","U+8282","U+6027","U+4F5C","U+7269">>, <<"C","u","l","t","i","v","o"," ","e","s","t","a","c","i","o","n","a","l">>})
         THEN tips
    ELSE RStrip(tips) \o suffix

----------------------------------------------------------------------------
(* scripts/release.py: the steps before a release.                          *)

\* The scripts main hands to run, in its order
RELEASE_STEPS ==
    <<"sort_plants", "merge_plant_data", "validate_json",
      "audit_metadata_completeness", "audit_scientific_names", "audit_duplicates",
      "audit_also_known_as", "audit_generic_descriptions", "audit_translation_sync",
      "audit_target_language">>

\* Only exit code 1 counts as a failure
run_only_one(returncode) == returncode # 1

\* run: True unless result.returncode != 0
run(returncode) == returncode = 0

\* return 0 if ok else 1
release_Return(ok) == IF ok THEN 0 ELSE 1

----------------------------------------------------------------------------
(* Bounds and the inputs drawn within them.                                 *)

MaxDescLen == 3        \* pieces of a description, where descriptions vary
MaxRecDescLen == 1     \* pieces of a description, where records vary
MaxRuns == 3           \* script runs on one file
MaxAliases == 2        \* aliases in the first parenthetical group
MaxExtraSegs == 3      \* parenthetical groups after the first
MaxValueLen == 3       \* characters of a value handed to the codec
MaxCodecDescLen == 2   \* characters of a description handed to the codec

Locales == {"en", "es", "zh-Hans"}

\* Every concatenation of at most n of the pieces.
RECURSIVE Texts(_, _)
Texts(pieces, n) ==
    IF n = 0 THEN {<<>>}
    ELSE LET T == Texts(pieces, n - 1) IN T \cup {t \o x : t \in T, x \in pieces}

Plain == {<<"a">>, <<" ">>, <<".">>, <<IdeoStop>>}

\* Descriptions of a file of locale l: text, whitespace, both full stops and
\* the locale's own phrase.
Descriptions(l, n) == Texts(Plain \cup {PhraseOf(l)}, n)

SeMo == <<"S","e"," ","m","o">>
Hy == <<"H","y">>
Do == <<"D","o">>
Bu == <<"B","u">>
StJ == <<"S","t","."," ","J">>
LowDo == <<"d","o">>
Dot == <<"D","o","t">>
Variety == <<"v","a","r","i","e","t","y">>

\* formal (alias, alias, ...)
Group(formal, aliases) == formal \o <<" ", "(">> \o Join(aliases, CommaSpace) \o <<")">>

\* The further groups of a category entry: "; Ot (zz)" k times.
RECURSIVE ExtraGroups(_)
ExtraGroups(k) ==
    IF k = 0 THEN <<>>
    ELSE <<";", " ">> \o Group(<<"O","t">>, << <<"z","z">> >>) \o ExtraGroups(k - 1)

\* Sequences of 1..n members of S
RECURSIVE SeqsUpTo(_, _)
SeqsUpTo(S, n) ==
    IF n = 0 THEN {}
    ELSE {<<x>> : x \in S} \cup {q \o <<x>> : q \in SeqsUpTo(S, n - 1), x \in S}

AliasPool == {Do, Bu, SeMo, StJ, Dot, Variety}
AliasLists == SeqsUpTo(AliasPool, MaxAliases)

Entry(type_name, description, common_examples) ==
    [id |-> <<"p","1">>, typeName |-> type_name, description |-> description,
     commonExamples |-> common_examples]

Idle == [script |-> "none", dry_run |-> FALSE]

NoCall == <<>>

----------------------------------------------------------------------------
(* The appliers as a state machine: a file, and script runs on it.          *)

InitRun ==
    /\ species_to_plant = build_species_to_plant_map(data)
    /\ op = Idle
    /\ prev_op = Idle
    /\ updated = 0
    /\ written = FALSE
    /\ raised = FALSE
    /\ before = data
    /\ resolved = [i \in 1..Len(data) |-> None]
    /\ runs = 0
    /\ args = NoCall
    /\ result = NoCall

\* Descriptions vary; the entry resolves to a nickname list, to a formal name,
\* or to a value with a full stop in it.
Init ==
    /\ locale \in Locales
    /\ \E tc \in {<<SeMo, Group(SeMo, <<Do, Bu>>)>>,
                  <<Do, Group(SeMo, <<Do, Bu>>)>>,
                  <<Hy, Group(Hy, <<StJ>>)>>} :
       \E description \in Descriptions(locale, MaxDescLen) :
            data = <<Entry(tc[1], description, tc[2])>>
    /\ InitRun

\* Records vary: the type name, the aliases of the first group, and how many
\* further groups a category entry lists.
RecTypeNames == {Do, LowDo, SeMo}
RecCommonExamples ==
    {<<>>, SeMo}
    \cup {Group(SeMo, al) : al \in SeqsUpTo({Do, Dot, SeMo}, MaxAliases)}
    \cup {Group(SeMo, <<Do, Bu>>) \o ExtraGroups(k) : k \in 1..MaxExtraSegs}

InitRec ==
    /\ locale \in Locales
    /\ \E type_name \in RecTypeNames, common_examples \in RecCommonExamples :
       \E description \in Texts({<<"a">>, <<".">>, PhraseOf(locale)}, MaxRecDescLen) :
            data = <<Entry(type_name, description, common_examples)>>
    /\ InitRun

Ran(script, dry_run, out) ==
    /\ runs < MaxRuns
    /\ runs' = runs + 1
    /\ prev_op' = op
    /\ op' = [script |-> script, dry_run |-> dry_run]
    /\ before' = data
    /\ data' = out.data
    /\ updated' = out.updated
    /\ written' = out.written
    /\ raised' = out.raised
    /\ resolved' = out.resolved
    /\ UNCHANGED <<locale, species_to_plant, args, result>>

\* add_common_alias_to_description.py without --dry-run
AddProcessFile ==
    Ran("add", FALSE, add_process_file(data, locale, FALSE, species_to_plant))

\* ensure_complementary_aka.py without --dry-run
EnsureProcessFile ==
    Ran("ensure", FALSE, ensure_process_file(data, locale, FALSE))

Next == AddProcessFile \/ EnsureProcessFile

Spec == Init /\ [][Next]_vars

SpecRec == InitRec /\ [][Next]_vars

----------------------------------------------------------------------------
(* Files of several entries, some of them with fields missing, null or      *)
(* empty, run in preview (--dry-run) and in write mode.                     *)

MaxRecords == 2        \* entries of a file

\* del entry[k]
Without(entry, k) == [f \in DOMAIN entry \ {k} |-> entry[f]]

BatchEntry(i, type_name, description, common_examples) ==
    [id |-> <<"p", ToString(i)>>, typeName |-> type_name, description |-> description,
     commonExamples |-> common_examples, careTips |-> <<"w">>]

BatchFields == {"typeName", "description", "commonExamples"}

\* Marks a key that the entry does not have
Missing == <<"<Missing>">>

\* The entry with every field of F missing, null (None) or "" (<<>>)
RECURSIVE Blank(_, _, _)
Blank(entry, F, kind) ==
    IF F = {} THEN entry
    ELSE LET k == CHOOSE f \in F : TRUE
         IN  Blank(IF kind = Missing THEN Without(entry, k) ELSE Put(entry, k, kind),
                   F \ {k}, kind)

\* What the first entry of a file may be: a plain entry whose type name is
\* the formal name or a nickname, an entry without a parenthetical group,
\* entries with fields missing, null or empty, the _metadata sentinel, an
\* entry without an id, and entries with a number where a str belongs.
FirstEntries ==
    LET plain == BatchEntry(1, SeMo, <<"a">>, Group(SeMo, <<Do, Bu>>))
    IN  {plain,
         Put(plain, "typeName", Do),
         Put(plain, "commonExamples", SeMo),
         Put(plain, "_metadata", <<"m">>),
         Without(plain, "id"),
         Put(plain, "id", <<>>),
         Put(plain, "typeName", Num),
         Put(plain, "description", Num)}
        \cup {Blank(plain, F, kind) : F \in (SUBSET BatchFields) \ {{}},
                                     kind \in {Missing, None, <<>>}}

\* What a later entry may be; its species is another one, so that the
\* species map of add leads to it.
LaterEntries(i) ==
    LET plain == BatchEntry(i, Hy, <<"a">>, Group(Hy, <<Bu>>))
    IN  {plain,
         Put(plain, "typeName", Bu),
         Without(plain, "description"),
         Put(plain, "_metadata", <<"m">>),
         Put(plain, "typeName", Num)}

\* Files of 1..n entries
RECURSIVE Files(_)
Files(n) ==
    IF n = 1 THEN {<<e>> : e \in FirstEntries}
    ELSE Files(n - 1) \cup {d \o <<e>> : d \in {f \in Files(n - 1) : Len(f) = n - 1},
                                         e \in LaterEntries(n)}

InitBatch ==
    /\ locale \in Locales
    /\ data \in Files(MaxRecords)
    /\ InitRun

\* add_common_alias_to_description.py --dry-run
AddDryRun ==
    Ran("add", TRUE, add_process_file(data, locale, TRUE, species_to_plant))

\* ensure_complementary_aka.py --dry-run
EnsureDryRun ==
    Ran("ensure", TRUE, ensure_process_file(data, locale, TRUE))

NextBatch == AddDryRun \/ EnsureDryRun \/ AddProcessFile \/ EnsureProcessFile

SpecBatch == InitBatch /\ [][NextBatch]_vars

\* Files whose entries share first-group formal names, for the species map
\* of add_common_alias_to_description.py.
MaxGateRecords == 3    \* entries of such a file

\* An entry is a specific plant (one group), a category plant (two groups),
\* a plant of another species, a plant without a group, or the sentinel.
GateEntries(i) ==
    LET plain == BatchEntry(i, Do, <<"a">>, Group(SeMo, <<Do, Bu>>))
    IN  {plain,
         Put(plain, "commonExamples", Group(SeMo, <<Do, Bu>>) \o ExtraGroups(1)),
         Put(plain, "commonExamples", Group(Hy, <<Bu>>)),
         Put(plain, "commonExamples", SeMo),
         Put(plain, "_metadata", <<"m">>)}

RECURSIVE GateFiles(_)
GateFiles(n) ==
    IF n = 0 THEN {<<>>}
    ELSE {d \o <<e>> : d \in GateFiles(n - 1), e \in GateEntries(n)}

InitGate ==
    /\ locale = "en"
    /\ data \in UNION {GateFiles(n) : n \in 1..MaxGateRecords}
    /\ InitRun

NextGate == AddDryRun \/ AddProcessFile

SpecGate == InitGate /\ [][NextGate]_vars

----------------------------------------------------------------------------
(* The applier and the audit in turn on one file.                           *)

\* Values an AKA block of the file may hold when the audit comes to it
AuditValues == {SeMo, Do, Bu, <<"z","z">>, Join(<<Do, Bu>>, CommaSpace)}

AuditDescriptions(l) ==
    {<<"a">>, <<"a", ".">>}
    \cup {build_aka_block(v, l) \o <<" ", "a", ".">> : v \in AuditValues}

\* A genus of SCIENTIFIC_GENERA written alone
Aloe == <<"A","l","o","e">>

\* The groups of the entry: nicknames alone, with or without a second group,
\* or a first group that lists a scientific name (a binomial, a bare genus)
\* among its aliases
AuditExamples ==
    {Group(SeMo, <<Do, Bu>>) \o ExtraGroups(k) : k \in 0..1}
    \cup {Group(SeMo, <<Do, SeMo>>), Group(SeMo, <<Do, Aloe>>)}

\* One entry, whose type name is a nickname (Do) or the formal name (Se mo)
\* of its first group.
InitAudit ==
    /\ locale \in Locales
    /\ \E type_name \in {Do, SeMo}, common_examples \in AuditExamples :
       \E description \in AuditDescriptions(locale) :
            data = <<Entry(type_name, description, common_examples)>>
    /\ InitRun

\* audit_also_known_as.py --fix
AuditFix == Ran("audit_fix", FALSE, audit_fix(data, locale))

\* audit_also_known_as.py
AuditReport ==
    /\ runs < MaxRuns
    /\ runs' = runs + 1
    /\ prev_op' = op
    /\ op' = [script |-> "audit", dry_run |-> TRUE]
    /\ before' = data
    /\ result' = audit_report(data, locale)
    /\ updated' = 0
    /\ written' = FALSE
    /\ raised' = FALSE
    /\ resolved' = [i \in 1..Len(data) |-> None]
    /\ UNCHANGED <<locale, data, species_to_plant, args>>

NextAudit == EnsureProcessFile \/ AuditFix \/ AuditReport

SpecAudit == InitAudit /\ [][NextAudit]_vars

----------------------------------------------------------------------------
(* The resolvers and the codec as pure functions of drawn arguments.        *)

InitCall ==
    /\ locale \in Locales
    /\ data = <<>>
    /\ species_to_plant = EmptyMap
    /\ op = Idle
    /\ prev_op = Idle
    /\ updated = 0
    /\ written = FALSE
    /\ raised = FALSE
    /\ before = <<>>
    /\ resolved = <<>>
    /\ runs = 0
    /\ result = NoCall

Called(script, out) ==
    /\ op = Idle
    /\ op' = [script |-> script, dry_run |-> FALSE]
    /\ result' = out
    /\ UNCHANGED <<locale, data, species_to_plant, prev_op, updated, written, raised,
                   before, resolved, runs, args>>

ResolveTypeNames == {Do, LowDo, SeMo, <<"z","z">>, <<>>}

InitResolve ==
    /\ InitCall
    /\ locale = "en"
    /\ \E type_name \in ResolveTypeNames, al \in AliasLists, k \in 0..1,
          use_first_only \in BOOLEAN :
            args = [type_name |-> type_name,
                    common_examples |-> Group(SeMo, al) \o ExtraGroups(k),
                    use_first_only |-> use_first_only]

CallGetValueToAdd ==
    Called("get_value_to_add",
           get_value_to_add(args.type_name,
                            add_parse_common_examples(args.common_examples),
                            args.use_first_only))

CallGetComplementaryValue ==
    Called("get_complementary_value",
           get_complementary_value(args.type_name,
                                   ensure_parse_common_examples(args.common_examples),
                                   args.use_first_only))

NextResolve == CallGetValueToAdd \/ CallGetComplementaryValue

SpecResolve == InitResolve /\ [][NextResolve]_vars

\* Values a resolver can return: no white space at either end, not empty.
Values == {v \in Texts(Plain, MaxValueLen) : v # <<>> /\ Strip(v) = v}

InitCodec ==
    /\ InitCall
    /\ \E value_ \in Values, description \in Texts(Plain, MaxCodecDescLen) :
            args = [value |-> value_, description |-> description]

\* encode(V, L) + " " + D
Encoded == build_aka_block(args.value, locale) \o <<" ">> \o args.description

CallStripExistingAlias ==
    Called("strip_existing_alias", strip_existing_alias(Encoded, locale))

CallStripAkaBlock ==
    Called("strip_aka_block", strip_aka_block(Encoded, locale))

CallAuditStripAkaBlock ==
    Called("audit_strip_aka_block", audit_strip_aka_block(Encoded, locale))

CallExtractAka ==
    Called("extract_aka", extract_aka(Encoded, locale))

\* extract_aka on the description as drawn, which holds no phrase
CallExtractAkaPlain ==
    Called("extract_aka_plain", extract_aka(args.description, locale))

NextCodec ==
    \/ CallStripExistingAlias
    \/ CallStripAkaBlock
    \/ CallAuditStripAkaBlock
    \/ CallExtractAka
    \/ CallExtractAkaPlain

SpecCodec == InitCodec /\ [][NextCodec]_vars

\* The strip functions on descriptions that may hold any number of blocks.
MaxStripDescLen == 4   \* pieces of a description handed to a strip function

InitStrip ==
    /\ InitCall
    /\ \E description \in Descriptions(locale, MaxStripDescLen) :
            args = [description |-> description]

StripExistingAlias ==
    Called("strip_existing_alias", strip_existing_alias(args.description, locale))

StripAkaBlock ==
    Called("strip_aka_block", strip_aka_block(args.description, locale))

AuditStripAkaBlock ==
    Called("audit_strip_aka_block", audit_strip_aka_block(args.description, locale))

NextStrip == StripExistingAlias \/ StripAkaBlock \/ AuditStripAkaBlock

SpecStrip == InitStrip /\ [][NextStrip]_vars

\* The three copies of the parser on one parenthetical group, with or
\* without a second group after it.
MaxParenLen == 3   \* pieces between the parentheses of the first group

CapVariety == <<"V","a","r","i","e","t","y">>

ParenPieces ==
    { <<"x">>, <<"y", ";">>, CapVariety, Syn, <<";">>, CommaSpace, <<" ">> }

ParseFormals == { <<"A", " ">>, <<" ">> }

SecondGroup == <<",", " ", "B", " ", "(", "y", ")">>

ParenGroup(formal, paren) == formal \o <<"(">> \o paren \o <<")">>

InitParse ==
    /\ InitCall
    /\ locale = "en"
    /\ \E formal \in ParseFormals, paren \in Texts(ParenPieces, MaxParenLen),
          rest \in {<<>>, SecondGroup} :
            args = [formal |-> formal, paren |-> paren, rest |-> rest,
                    common_examples |-> ParenGroup(formal, paren) \o rest]

\* A call of the parser: its list, or the exception it ends in.
ParseCall(script, out) ==
    /\ op = Idle
    /\ op' = [script |-> script, dry_run |-> FALSE]
    /\ raised' = parse_Raises(args.common_examples)
    /\ result' = IF parse_Raises(args.common_examples) THEN NoCall ELSE out
    /\ UNCHANGED <<locale, data, species_to_plant, prev_op, updated, written,
                   before, resolved, runs, args>>

AddParseCommonExamples ==
    ParseCall("add_parse_common_examples",
              add_parse_common_examples(args.common_examples))

EnsureParseCommonExamples ==
    ParseCall("ensure_parse_common_examples",
              ensure_parse_common_examples(args.common_examples))

AuditParseCommonExamples ==
    ParseCall("audit_parse_common_examples",
              audit_parse_common_examples(args.common_examples))

NextParse ==
    \/ AddParseCommonExamples
    \/ EnsureParseCommonExamples
    \/ AuditParseCommonExamples

SpecParse == InitParse /\ [][NextParse]_vars

\* The parser on any value a language file may hold under commonExamples.
MaxExamplesLen == 4   \* characters of a commonExamples text

ExampleChars == { <<"A">>, <<"x">>, <<"(">>, <<")">>, <<",">>, <<" ">> }

InitTotal ==
    /\ InitCall
    /\ locale = "en"
    /\ \E common_examples \in {None, Num} \cup Texts(ExampleChars, MaxExamplesLen) :
            args = [common_examples |-> common_examples]

SpecTotal == InitTotal /\ [][NextParse]_vars

\* The two classifiers on one token.
MaxTokenPieces == 3   \* pieces of a token handed to a classifier

TokenPieces ==
    { <<"C","h","i","n","e","s","e">>,
      <<" ","e","v","e","r","g","r","e","e","n">>,
      <<"M","o","t","h","e","r">>,
      <<" ","o","f"," ","t","h","o","u","s","a","n","d","s">>,
      <<"S","e">>, <<" ","m","o">>, <<"'">>, <<" ","v","a","r",".">> }

InitClassify ==
    /\ InitCall
    /\ locale = "en"
    /\ \E value_ \in Texts(TokenPieces, MaxTokenPieces) : args = [value |-> value_]

LooksLikeScientificName ==
    Called("looks_like_scientific_name", looks_like_scientific_name(args.value))

AuditLooksLikeScientificName ==
    Called("audit_looks_like_scientific_name",
           audit_looks_like_scientific_name(args.value))

NextClassify == LooksLikeScientificName \/ AuditLooksLikeScientificName

SpecClassify == InitClassify /\ [][NextClassify]_vars

\* add_dormancy_notes.py run again and again on one entry: a careTips text
\* and the suffix main looks up for the entry.
DormancyTips ==
    { <<>>,
      <<"W","a","t","e","r"," ","w","e","e","k","l","y",".">>,
      <<"W","a","t","e","r"," ","w","e","e","k","l","y","."," ">>,
      <<"K","e","e","p"," ","D","o","r","m","a","n","t"," ","i","n"," ","w","i","n","t","e","r",".">>,
      <<"A"," ","d","e","c","i","d","u","o","u","s"," ","t","r","e","e",".">>,
      <<"A","n","u","a","l",".">> }

DormancyTables == {DORMANCY_SUFFIX, DORMANCY_ES, DORMANCY_ZH}

InitDormancy ==
    /\ InitCall
    /\ locale = "en"
    /\ \E tips \in DormancyTips, suffix_map \in DormancyTables :
       \E key \in DOMAIN suffix_map :
            args = [tips |-> tips, suffix |-> suffix_map[key]]

\* One turn of main's loop on the entry: e["careTips"] = new_tips
AddDormancyNote ==
    /\ runs < MaxRuns
    /\ runs' = runs + 1
    /\ prev_op' = op
    /\ op' = [script |-> "add_dormancy_note", dry_run |-> FALSE]
    /\ result' = add_dormancy_note(args.tips, args.suffix)
    /\ args' = [args EXCEPT !.tips = add_dormancy_note(args.tips, args.suffix)]
    /\ UNCHANGED <<locale, data, species_to_plant, updated, written, raised,
                   before, resolved>>

SpecDormancy == InitDormancy /\ [][AddDormancyNote]_vars

\* release.py: each step is a subprocess that exits with some code.
ExitCodes == {0, 1, 2}

InitRelease ==
    /\ locale = "en"
    /\ data = <<>>
    /\ species_to_plant = EmptyMap
    /\ op = Idle
    /\ prev_op = Idle
    /\ updated = 0
    /\ written = FALSE
    /\ raised = FALSE
    /\ before = <<>>
    /\ resolved = <<>>
    /\ runs = 0
    /\ args = [steps |-> <<>>, codes |-> <<>>]
    /\ result = [ok |-> TRUE]

\* ok &= run([...], desc): the next script runs whatever ok is
ReleaseStep ==
    /\ op.script \in {"none", "release_step"}
    /\ Len(args.steps) < Len(RELEASE_STEPS)
    /\ \E returncode \in ExitCodes :
        /\ args' = [steps |-> Append(args.steps, RELEASE_STEPS[Len(args.steps) + 1]),
                    codes |-> Append(args.codes, returncode)]
        /\ result' = [ok |-> result.ok /\ run(returncode)]
    /\ op' = [script |-> "release_step", dry_run |-> FALSE]
    /\ UNCHANGED <<locale, data, species_to_plant, prev_op, updated, written, raised,
                   before, resolved, runs>>

\* return 0 if ok else 1
ReleaseReturn ==
    /\ op.script = "release_step"
    /\ Len(args.steps) = Len(RELEASE_STEPS)
    /\ op' = [script |-> "release_main", dry_run |-> FALSE]
    /\ result' = [ok |-> result.ok, returned |-> release_Return(result.ok)]
    /\ UNCHANGED <<locale, data, species_to_plant, prev_op, updated, written, raised,
                   before, resolved, runs, args>>

NextRelease == ReleaseStep \/ ReleaseReturn

SpecRelease == InitRelease /\ [][NextRelease]_vars

----------------------------------------------------------------------------
(* What the claims speak of.                                                *)

WriteRun(script) == op = [script |-> script, dry_run |-> FALSE]

\* How many times the locale phrase occurs in a description
PhraseCount(description, l) ==
    Cardinality({i \in 1..Len(description) : Occurs(description, PhraseOf(l), i)})

DescriptionOf(d) == GetOrEmpty(d[1], "description")

\* s.split(sep) for a separator of any length
RECURSIVE SplitOn(_, _)
SplitOn(s, sep) ==
    LET i == Find(s, sep, 1)
    IN  IF i = 0 THEN <<s>>
        ELSE <<SubSeq(s, 1, i - 1)>> \o SplitOn(SubSeq(s, i + Len(sep), Len(s)), sep)

Range(q) == {q[i] : i \in 1..Len(q)}

\* The segments a resolver call was given, and those it is to consider
CallSegments ==
    IF op.script = "get_value_to_add"
    THEN add_parse_common_examples(args.common_examples)
    ELSE ensure_parse_common_examples(args.common_examples)

CallConsidered ==
    IF args.use_first_only /\ CallSegments # <<>> THEN <<CallSegments[1]>> ELSE CallSegments

CallAliases == UNION {Range(CallConsidered[i][2]) : i \in 1..Len(CallConsidered)}

Resolved == op.script \in {"get_value_to_add", "get_complementary_value"}

SameName(a, b) == Lower(a) = Lower(b)

\* "No match" mode: the type name equals no considered alias, case aside
NoMatchMode == Resolved /\ \A a \in CallAliases : ~SameName(a, args.type_name)
MatchMode == Resolved /\ \E a \in CallAliases : SameName(a, args.type_name)

\* The names a resolver's result lists
ResultParts ==
    IF op.script = "get_value_to_add"
    THEN IF result[1] # None THEN {result[1]} ELSE Range(result[2])
    ELSE IF result[1] = None THEN {}
         ELSE IF result[2] THEN {result[1]}
         ELSE Range(SplitOn(result[1], CommaSpace))

\* The redundancy rule as stated: equal to the type name, inside it, or around it
RedundantWith(a, type_name) ==
    \/ SameName(a, type_name)
    \/ Contains(Lower(type_name), Lower(a))
    \/ Contains(Lower(a), Lower(type_name))

----------------------------------------------------------------------------
(* The claims.                                                              *)

\* C1: idempotence of the applier.  When the same applier has just run twice
\* in a row in write mode, the second run made no change: it counted no
\* entry as updated and left the file as the first run wrote it.
C1_Idempotent ==
    \A script \in {"add", "ensure"} :
        (WriteRun(script) /\ prev_op = op) => (updated = 0 /\ data = before)

\* C2: at most one block.  An applier run on a description that holds the
\* locale phrase at most once leaves a description that holds it at most once.
C2_AtMostOneBlock ==
    (op # Idle /\ PhraseCount(DescriptionOf(before), locale) <= 1)
        => PhraseCount(DescriptionOf(data), locale) <= 1

\* C3: round trip of strip over encode.  For every locale L, value V and
\* description D without the phrase, each copy of strip gives, on
\* encode(V, L) + " " + D, the description D with only the white-space and
\* double-punctuation clean-up applied.
C3_StripRoundTrip ==
    op.script \in {"strip_existing_alias", "strip_aka_block", "audit_strip_aka_block"}
        => result = CleanUp(args.description)

\* C4: decode recovers the encoded value exactly.  extract_aka on
\* build_aka_block(V, L) + " " + D returns V, and on a description without
\* the locale phrase it returns None.
C4_DecodeExact ==
    /\ op.script = "extract_aka" => result = args.value
    /\ op.script = "extract_aka_plain" => result = None

\* C5: category skip.  For an entry whose commonExamples parses to more than
\* 3 segments, either applier resolves no value, leaves the file as it was
\* and counts no update.
C5_CategorySkip ==
    (op # Idle
     /\ Len(add_parse_common_examples(GetOrEmpty(before[1], "commonExamples"))) > 3)
        => (resolved[1] = None /\ data = before /\ updated = 0)

\* C6: scientific exclusion.  In no-match mode no considered alias that
\* classifies as a scientific name is listed in the resolved value, for
\* get_value_to_add and for get_complementary_value.
C6_ScientificExclusion ==
    NoMatchMode => \A a \in CallAliases : looks_like_scientific_name(a) => a \notin ResultParts

\* C7: primary-segment scoping.  Called with use_first_only, a resolver lists
\* only the formal name or aliases of segments[0], in nickname-match mode
\* and in no-match mode alike: nothing that only a later segment holds.
C7_PrimarySegmentOnly ==
    (Resolved /\ args.use_first_only)
        => IF CallSegments = <<>> THEN ResultParts = {}
           ELSE ResultParts \subseteq ({CallSegments[1][1]} \cup Range(CallSegments[1][2]))

\* C7 witness: a second segment is present, the type name is the alias of
\* that later segment, and the resolver still lists first-segment aliases.
C7_Witness ==
    /\ Resolved
    /\ args.use_first_only
    /\ Len(CallSegments) = 2
    /\ args.type_name \in Range(CallSegments[2][2])
    /\ ResultParts # {}

C9_NicknameYieldsFormal ==
    MatchMode =>
        /\ result[1] = Join([i \in 1..Len(CallConsidered) |-> CallConsidered[i][1]],
                            CommaSpace)
        /\ op.script = "get_value_to_add" => result[2] = <<>>
        /\ op.script = "get_complementary_value" => result[2] = TRUE

\* C9 witness: the type name differs from the alias in case only, and the
\* formal name of the first segment is what came back.
C9_Witness ==
    /\ MatchMode
    /\ args.type_name \notin CallAliases
    /\ result[1] = SeMo

\* What an applier run had before it: the entry, its segments, and whether
\* the type name matches no alias of the first segment
RunTypeName == GetOrEmpty(before[1], "typeName")
RunSegments ==
    IF op.script = "add"
    THEN add_parse_common_examples(GetOrEmpty(before[1], "commonExamples"))
    ELSE ensure_parse_common_examples(GetOrEmpty(before[1], "commonExamples"))
RunNoMatch ==
    /\ op # Idle
    /\ RunSegments # <<>>
    /\ Len(RunSegments) <= 3
    /\ \A a \in Range(RunSegments[1][2]) : ~SameName(a, RunTypeName)

\* The aliases that survive the resolver's filter: add drops the redundant
\* ones; ensure drops the redundant, the scientific-looking and the generic.
Survives(a) ==
    /\ ~RedundantWith(a, RunTypeName)
    /\ op.script = "ensure" =>
         (~looks_like_scientific_name(a) /\ Lower(a) \notin ensure_EXCLUDE_GENERIC)
Survivors == SelectSeq(RunSegments[1][2], Survives)

\* C10: no-match mode yields the surviving aliases in order.  For an entry of
\* at most 3 segments whose type name matches no alias, the value resolved is
\* the surviving first-segment aliases in their order joined with ", "; when
\* none survives no value is resolved and the run leaves the entry as it was.
C10_SurvivorsInOrder ==
    RunNoMatch =>
        IF Survivors = <<>>
        THEN resolved[1] = None /\ data = before /\ updated = 0
        ELSE resolved[1] = Join(Survivors, CommaSpace)

\* C10 witness: two aliases survive and come back in their order.
C10_Witness ==
    /\ RunNoMatch
    /\ Len(Survivors) = 2
    /\ Survivors[1] # Survivors[2]
    /\ resolved[1] = Survivors[1] \o CommaSpace \o Survivors[2]

----------------------------------------------------------------------------
(* Files of several entries.                                                *)

Ids == 1..Len(before)

\* The segments the applier that ran parsed from the i-th entry
RanSegments(i) ==
    IF op.script = "add"
    THEN add_parse_common_examples(GetOrEmpty(before[i], "commonExamples"))
    ELSE ensure_parse_common_examples(GetOrEmpty(before[i], "commonExamples"))

\* What the applier that ran returns on the same file in write mode
WriteModeOutcome ==
    IF op.script = "add" THEN add_process_file(before, locale, FALSE, species_to_plant)
    ELSE ensure_process_file(before, locale, FALSE)

\* What the loop of the applier that ran makes of the i-th entry on its own
AloneOutcome(i) ==
    IF op.script = "add" THEN add_Entry(before[i], locale, op.dry_run, species_to_plant)
    ELSE ensure_Entry(before[i], locale, op.dry_run)

\* The entries whose description is not what it was
Rewritten == {i \in Ids : Get(data[i], "description") # Get(before[i], "description")}

\* C11: preview versus commit.  A dry run leaves every description and the
\* file as they were and returns the count that write mode returns on the
\* same file; a write run writes the file exactly when it counted an update,
\* and then the descriptions it rewrote are as many as it counted.
C11_PreviewVersusCommit ==
    op # Idle =>
        /\ op.dry_run => /\ data = before
                         /\ ~written
                         /\ updated = WriteModeOutcome.updated
        /\ ~op.dry_run => /\ written <=> updated > 0
                          /\ Len(data) = Len(before)
                          /\ Cardinality(Rewritten) = updated

C11_Witness == op.dry_run /\ updated > 0 /\ ~raised /\ prev_op = Idle

\* C12: frame of the applier.  After a write run the file has the same
\* number of entries in the same order, each with the same keys and with
\* every field but description as it was; the sentinel and the entries
\* without an id are as they were; and each description is the old one or
\* the complete new one.
C12_Frame ==
    (op # Idle /\ ~op.dry_run) =>
        /\ Len(data) = Len(before)
        /\ \A i \in Ids :
            /\ DOMAIN data[i] = DOMAIN before[i]
            /\ \A k \in (DOMAIN before[i] \cap DOMAIN data[i]) \ {"description"} :
                    data[i][k] = before[i][k]
            /\ ~IsPlant(before[i]) => data[i] = before[i]
            /\ Get(data[i], "description") \in
                    {Get(before[i], "description"),
                     Get(AloneOutcome(i).entry, "description")}

\* C13: no-op on entries without segments.  An entry whose commonExamples is
\* missing, empty or without a parenthetical group keeps its description,
\* has no value resolved and is not counted.
C13_NoSegmentsNoOp ==
    op # Idle =>
        /\ \A i \in Ids : RanSegments(i) = <<>>
                => (data[i] = before[i] /\ resolved[i] = None)
        /\ updated <= Cardinality({i \in Ids : RanSegments(i) # <<>>})

C13_Witness ==
    /\ op # Idle /\ ~op.dry_run /\ updated > 0
    /\ \E i \in Ids : /\ IsPlant(before[i])
                       /\ Truthy(Get(before[i], "typeName"))
                       /\ RanSegments(i) = <<>>

\* An entry one of whose three fields is missing, null or ""
Blankish(entry) == \E k \in BatchFields : ~Truthy(Get(entry, k))

\* C14: per-record failures never abort the batch.  On a file whose entries
\* may lack typeName, description or commonExamples, or hold null or "" there,
\* process_file ends without an exception, leaves each such entry alone with
\* no value resolved, and deals with every entry as if it stood alone.
C14_FailuresNeverAbort ==
    (op # Idle /\ \A i \in Ids : \A k \in BatchFields : Get(before[i], k) # Num) =>
        /\ ~raised
        /\ \A i \in Ids : Blankish(before[i])
                => (data[i] = before[i] /\ resolved[i] = None)
        /\ \A i \in Ids : op.dry_run \/ data[i] = AloneOutcome(i).entry

----------------------------------------------------------------------------
(* The applier and the audit.                                               *)

\* The type name is an alias of a segment and the AKA block holds that
\* segment's formal name: the entry as ensure leaves it in nickname mode.
NicknameBlock(entry) ==
    LET formal == get_formal_name_for_nickname(GetDefault(entry, "typeName"),
                                               GetDefault(entry, "commonExamples"))
    IN  /\ formal # None
        /\ extract_aka(GetDefault(entry, "description"), locale) = formal

\* C15: the audit honours the nickname exception.  On an entry whose type
\* name is an alias and whose block holds the formal name, audit_scientific
\* lists nothing and fix_scientific rewrites nothing; and when ensure, then
\* audit --fix, then ensure run in turn on such an entry, the third run
\* changes nothing.
C15_NicknameExceptionHonoured ==
    /\ [](\A i \in 1..Len(data) :
            /\ (op.script = "audit" /\ NicknameBlock(data[i]))
                    => i \notin result.scientific
            /\ (op.script = "audit_fix" /\ NicknameBlock(before[i]))
                    => ~fix_scientific_Entry(before[i], locale).changed)
    /\ [][(/\ prev_op = [script |-> "ensure", dry_run |-> FALSE]
           /\ op.script = "audit_fix"
           /\ op'.script = "ensure"
           /\ \A i \in 1..Len(data) : NicknameBlock(before[i]))
              => updated' = 0]_vars

\* C16: locale-appropriate terminal punctuation.  When an applier builds the
\* new description from a base that is not empty and does not end in a
\* terminal mark (here: a description without the phrase and without white
\* space at its end), the new description is the block, a space, the base and
\* the terminal mark of the locale: "." for en and es, "U+3002" for zh-Hans.
C16_LocaleTerminalMark ==
    LET description == DescriptionOf(before)
    IN  (/\ op # Idle /\ Truthy(resolved[1])
         /\ ~Contains(description, PhraseOf(locale))
         /\ description # <<>> /\ RStrip(description) = description
         /\ ~EndsWithAny(description, Terminal))
            => DescriptionOf(data) = build_aka_block(resolved[1], locale) \o <<" ">>
                                        \o description \o <<SuffixOf(locale)>>

\* Where the first encode-shaped substring of s (the phrase, a run without
\* the terminal mark, the terminal mark) starts and ends; <<0, 0>> without one
FirstBlock(s, l) ==
    LET i == Find(s, PhraseOf(l), 1)
        e == IF i = 0 THEN 0 ELSE Find(s, <<SuffixOf(l)>>, i + Len(PhraseOf(l)))
    IN  IF e = 0 THEN <<0, 0>> ELSE <<i, e>>

\* How many encode-shaped substrings s holds, one after the other
RECURSIVE BlockCount(_, _)
BlockCount(s, l) ==
    IF FirstBlock(s, l) = <<0, 0>> THEN 0
    ELSE 1 + BlockCount(SubSeq(s, FirstBlock(s, l)[2] + 1, Len(s)), l)

\* s without its first encode-shaped substring
WithoutFirstBlock(s, l) ==
    SubSeq(s, 1, FirstBlock(s, l)[1] - 1) \o SubSeq(s, FirstBlock(s, l)[2] + 1, Len(s))

ParseScripts ==
    {"add_parse_common_examples", "ensure_parse_common_examples",
     "audit_parse_common_examples"}

ParseCalled == op # Idle /\ op.script \in ParseScripts

Generic(a) == Lower(a) \in EXCLUDE_GENERIC \/ StartsWith(Lower(a), Syn)

\* C18: in every copy of parse_common_examples a comma-separated token is
\* trimmed first and dropped when, trimmed, it is empty, a generic stopword
\* (whatever its case) or starts with "syn."; so no alias of a returned
\* segment is empty, a stopword or a "syn." token, and "A (x, Variety)" gives
\* the single alias "x".
C18_TokenFilterTrimsFirst ==
    ParseCalled =>
        \A i \in 1..Len(Aliases(result)) :
            /\ Aliases(result)[i] # <<>>
            /\ ~Generic(Aliases(result)[i])

\* The position of the last c in s; 0 when there is none.
LastIndexOf(s, c) ==
    LET I == {i \in 1..Len(s) : s[i] = c}
    IN  IF I = {} THEN 0 ELSE CHOOSE i \in I : \A j \in I : j <= i

AfterLast(s, c) == SubSeq(s, LastIndexOf(s, c) + 1, Len(s))

\* The alias list a copy of the parser makes of an alias text.
ParseAliases(script, text) ==
    CASE script = "add_parse_common_examples" ->
            SelectSeq(MapSeq(Strip, Split(text, ",")), add_KeepAlias)
      [] script = "ensure_parse_common_examples" ->
            MapSeq(Strip, SelectSeq(Split(text, ","), ensure_KeepAlias))
      [] script = "audit_parse_common_examples" ->
            MapSeq(Strip, SelectSeq(Split(text, ","), audit_KeepAlias))

ParseOf(script, common_examples) ==
    CASE script = "add_parse_common_examples" ->
            add_parse_common_examples(common_examples)
      [] script = "ensure_parse_common_examples" ->
            ensure_parse_common_examples(common_examples)
      [] script = "audit_parse_common_examples" ->
            audit_parse_common_examples(common_examples)

\* The segment of the first group when its alias list is read from text.
FirstGroupFrom(script, text) ==
    LET formal == Strip(args.formal)
        aliases == ParseAliases(script, Strip(text))
    IN  IF formal # <<>> /\ aliases # <<>> THEN << <<formal, aliases>> >> ELSE <<>>

\* C19: when the content of a parenthetical group holds one or more ";",
\* the alias list is read from the text after the last ";" alone: the result
\* is the one the group would give with only that text between its
\* parentheses, and nothing before the last ";" becomes an alias.
C19_SynonymClause ==
    (ParseCalled /\ Contains(args.paren, <<";">>))
        => result = FirstGroupFrom(op.script, AfterLast(args.paren, ";"))
                        \o ParseOf(op.script, args.rest)

\* Two ";" in the group, a token before the last one that would pass the
\* filter, and an alias taken from behind it.
C19_Witness ==
    /\ ParseCalled
    /\ LastIndexOf(args.paren, ";") > Find(args.paren, <<";">>, 1)
    /\ args.paren[1] = "y"
    /\ Len(result) = 1
    /\ result[1][2] = << <<"x">> >>

WellFormedSegment(seg) ==
    /\ seg[1] # <<>>
    /\ seg[1] = Strip(seg[1])
    /\ seg[2] # <<>>
    /\ \A k \in 1..Len(seg[2]) : seg[2][k] # <<>>

\* C20: every segment parse_common_examples returns has a non-empty trimmed
\* formal name and a non-empty alias list of non-empty aliases; a matched
\* group (one with text between its parentheses) whose formal name or
\* filtered alias list is empty gives no segment; the segments
\* stand in the left-to-right order of their groups in the input.
C20_ParserOutput ==
    ParseCalled =>
        /\ \A i \in 1..Len(result) : WellFormedSegment(result[i])
        /\ (/\ args.paren # <<>>
            /\ \/ Strip(args.formal) = <<>>
               \/ ParseAliases(op.script, AfterLast(Strip(args.paren), ";")) = <<>>)
              => result = ParseOf(op.script, args.rest)
        /\ \A i, j \in 1..Len(result) :
              i < j => Find(args.common_examples, result[i][1], 1)
                          < Find(args.common_examples, result[j][1], 1)

\* Two groups kept, in order.
C20_Witness ==
    /\ ParseCalled
    /\ Len(result) = 2
    /\ result[1][1] = <<"A">>
    /\ result[2][2] = << <<"y">> >>

\* Whether a value holds a complete parenthetical group: a "(" and, behind
\* it, a ")".
HasGroup(v) ==
    /\ IsStr(v)
    /\ \E p, q \in 1..Len(v) : p < q /\ v[p] = "(" /\ v[q] = ")"

\* C21: parse_common_examples never raises and returns a finite list for
\* every input: the empty string, a value that is no string, text without
\* parentheses, a "(" without its ")", an empty "()"; an input without a
\* complete parenthetical group gives the empty list.
C21_ParserTotal ==
    ParseCalled =>
        /\ ~raised
        /\ DOMAIN result = 1..Len(result)
        /\ ~HasGroup(args.common_examples) => result = <<>>

\* A number under commonExamples, handed to the parser.
C21_Witness ==
    /\ ParseCalled
    /\ args.common_examples = Num
    /\ result = <<>>
    /\ ~raised

ClassifierCalled ==
    op # Idle /\ op.script \in {"looks_like_scientific_name",
                                "audit_looks_like_scientific_name"}

\* The token has the shape "Capitalized lowercase" somewhere, and wherever it
\* has, the capitalized word is one of COMMON_FIRST_WORDS.
AllowListedOnly(val) ==
    /\ \E i \in 1..Len(val) : BinomialAt(val, i)
    /\ \A i \in 1..Len(val) :
           BinomialAt(val, i) => Lower(BinomialGenus(val, i)) \in COMMON_FIRST_WORDS

\* A rule other than the binomial one flags the token.
OtherRule(val) ==
    \/ audit_Synonym(val) \/ Cultivar(val) \/ Taxon(val) \/ audit_Taxon(val)
    \/ audit_Genus(val) \/ audit_Abbreviated(val)

\* C22: a token whose only "Capitalized lowercase" occurrences start with a
\* word of the allow-list COMMON_FIRST_WORDS ("Chinese evergreen", "Mother of
\* thousands") and which no other rule flags is classified as not scientific,
\* by the classifier of ensure_complementary_aka.py and by the audit's.
C22_AllowListException ==
    (/\ ClassifierCalled
     /\ AllowListedOnly(Strip(args.value))
     /\ ~OtherRule(Strip(args.value)))
        => result = FALSE

\* The applier that ran, run again on the file d
RunOn(d) ==
    IF op.script = "add" THEN add_process_file(d, locale, op.dry_run, species_to_plant)
    ELSE ensure_process_file(d, locale, op.dry_run)

\* The file the run had, with another type name and description in entry j
OtherTypeNames == {Do, Bu, <<>>}
OtherDescriptions(l) == {<<"b">>, PhraseOf(l) \o <<"z", SuffixOf(l)>>}
WithOther(j, type_name, description) ==
    [before EXCEPT ![j] = Put(Put(@, "typeName", type_name), "description", description)]

\* C23: record independence.  The value resolved for an entry and the entry
\* a run leaves depend on that entry alone (and, for add, on the species
\* map): whatever type name and description any other entry of the file is
\* given, a run that completes resolves the same value for this entry and
\* leaves the same entry.
C23_RecordIndependence ==
    (op.script \in {"add", "ensure"} /\ ~raised) =>
        \A j \in Ids :
            \A type_name \in OtherTypeNames, description \in OtherDescriptions(locale) :
                \A out \in {RunOn(WithOther(j, type_name, description))} :
                    \A i \in Ids \ {j} :
                        /\ out.resolved[i] = resolved[i]
                        /\ out.data[i] = data[i]

\* Two entries, each with a value of its own resolved, the first rewritten.
C23_Witness ==
    /\ op.script \in {"add", "ensure"} /\ ~op.dry_run /\ ~raised
    /\ Len(before) = 2
    /\ resolved[1] # None /\ resolved[2] # None /\ resolved[1] # resolved[2]
    /\ data[1] # before[1]

\* The first-group formal name of the i-th entry and the number of its
\* groups, as add's parser reads them; the entries that share a formal name.
FormalOf(i) ==
    LET segments == add_parse_common_examples(GetOrEmpty(before[i], "commonExamples"))
    IN  IF segments = <<>> THEN <<>> ELSE Strip(segments[1][1])
GroupsOf(i) == Len(add_parse_common_examples(GetOrEmpty(before[i], "commonExamples")))
Sharing(f) == {i \in Ids : IsPlant(before[i]) /\ f # <<>> /\ FormalOf(i) = f}

\* C24: eligibility gate.  The species map sends each first-group formal name
\* of the file to exactly one id: that of an entry with the fewest groups
\* among the entries sharing the name, the first in file order on a tie.
\* add's process_file resolves a value only for an entry the map sends its
\* formal name to, so for at most one entry per formal name.
C24_EligibilityGate ==
    /\ DOMAIN species_to_plant = {FormalOf(i) : i \in {k \in Ids : Sharing(FormalOf(k)) # {}}}
    /\ \A f \in DOMAIN species_to_plant :
           \E i \in Sharing(f) :
               /\ species_to_plant[f] = Get(before[i], "id")
               /\ \A j \in Sharing(f) :
                      /\ GroupsOf(i) <= GroupsOf(j)
                      /\ GroupsOf(j) = GroupsOf(i) => i <= j
    /\ op.script = "add" =>
           /\ \A i \in Ids :
                  resolved[i] # None =>
                      MapGet(species_to_plant, FormalOf(i)) = Get(before[i], "id")
           /\ \A i, j \in Ids :
                  (resolved[i] # None /\ resolved[j] # None /\ i # j)
                      => FormalOf(i) # FormalOf(j)

\* A category entry comes first, a specific entry of the same species after
\* it: the later entry is the one annotated.
C24_Witness ==
    /\ op.script = "add" /\ ~op.dry_run
    /\ Len(before) >= 2
    /\ FormalOf(1) = FormalOf(2)
    /\ GroupsOf(2) < GroupsOf(1)
    /\ resolved[1] = None /\ resolved[2] # None
    /\ data[2] # before[2]

DormancyNoted == op = [script |-> "add_dormancy_note", dry_run |-> FALSE]

\* C25: the dormancy note is added at most once.  For every careTips text and
\* every suffix of the three tables, add_dormancy_note applied to its own
\* result returns that result: a second run appends nothing.
C25_DormancyNoteOnce ==
    DormancyNoted => add_dormancy_note(result, args.suffix) = result

Released == op # Idle /\ op.script = "release_main"

\* C26: release gate.  When release.main returns, every step has run, in the
\* order sort, merge, validate and then the audits, whatever the steps before
\* it exited with; it returns 0 exactly when every step exited with code 0,
\* and 1 otherwise.
C26_ReleaseGate ==
    Released =>
        /\ args.steps = RELEASE_STEPS
        /\ Len(args.codes) = Len(RELEASE_STEPS)
        /\ result.returned = 0 <=> \A k \in 1..Len(args.codes) : args.codes[k] = 0
        /\ result.returned \in {0, 1}

\* The first step failed, with a code other than 1, every later step ran and
\* succeeded, and main returned 1.
C26_Witness ==
    /\ Released
    /\ args.codes[1] = 2
    /\ \A k \in 2..Len(args.codes) : args.codes[k] = 0
    /\ result.returned = 1

\* The last run made the description of the entry longer
Grew == Len(DescriptionOf(data)) > Len(DescriptionOf(before))

\* C27: repeated application converges.  Run again and again on its own
\* output, an applier comes to a description it leaves as it is, and the
\* description does not grow with each run: a write run that follows a run
\* of the same applier that made the description longer does not make it
\* longer again.
C27_RepeatedApplicationConverges ==
    [][(op # Idle /\ ~op.dry_run /\ op' = op /\ Grew) => ~Grew']_vars

AuditFixed == op # Idle /\ op.script = "audit_fix"
AfterAuditFix == prev_op # Idle /\ prev_op.script = "audit_fix"

\* C28: audit --fix reaches a clean state.  Once the three passes of --fix
\* have run over a file, an audit run that follows lists no entry under any
\* of its three checks and exits with 0, and a second --fix run changes
\* nothing.
C28_AuditFixClean ==
    /\ (op.script = "audit" /\ AfterAuditFix) =>
            /\ result.scientific = {} /\ result.duplicate = {} /\ result.subspecies = {}
            /\ result.exit = 0
    /\ (AuditFixed /\ AfterAuditFix) => (updated = 0 /\ data = before)

\* C29: the three copies of parse_common_examples agree: on every input
\* string the add, ensure and audit scripts return the same sequence of
\* (formalName, aliases) segments.
C29_ParsersAgree ==
    (ParseCalled /\ ~raised) =>
        /\ result = add_parse_common_examples(args.common_examples)
        /\ result = ensure_parse_common_examples(args.common_examples)
        /\ result = audit_parse_common_examples(args.common_examples)

\* The resolver of ensure_complementary_aka.py in no-match mode on an entry:
\* the type name is none of the aliases and some alias is kept
KeptNoMatch(entry) ==
    LET r == get_complementary_value(
                 GetOrEmpty(entry, "typeName"),
                 ensure_parse_common_examples(GetOrEmpty(entry, "commonExamples")),
                 TRUE)
    IN  Truthy(r[1]) /\ ~r[2]

EnsureWrote == op = [script |-> "ensure", dry_run |-> FALSE]
AfterEnsureWrote == prev_op = [script |-> "ensure", dry_run |-> FALSE]

\* C30: resolver output passes the audit's scientific check.  Every alias
\* that get_complementary_value of ensure_complementary_aka.py keeps in
\* no-match mode is not scientific for looks_like_scientific_name of
\* audit_also_known_as.py, and the audit that follows the ensure run does not
\* list the entry under scientific names.
C30_ResolverPassesAudit ==
    /\ EnsureWrote =>
            \A i \in 1..Len(before) :
                (KeptNoMatch(before[i]) /\ Truthy(resolved[i])) =>
                    \A k \in 1..Len(Parts(resolved[i])) :
                        ~audit_looks_like_scientific_name(Parts(resolved[i])[k])
    /\ (op.script = "audit" /\ AfterEnsureWrote) =>
            \A i \in 1..Len(data) :
                KeptNoMatch(data[i]) => i \notin result.scientific

=============================================================================
